---------------------------- MODULE Spec2Model ----------------------------
(***************************************************************************)
(* A model of repo-map: the ranked repository map engine                   *)
(* (repo_map/core/repomap.py, tags.py, special.py) and the                 *)
(* multi-resolution context renderer (repo_map/core/renderer.py,           *)
(* flight_plan.py, cost.py).                                               *)
(*                                                                         *)
(* Each subsystem has its own variables, initial condition and next-state  *)
(* relation; a specification of one subsystem keeps the variables of the   *)
(* others at their initial values.                                         *)
(*                                                                         *)
(* Text is modelled by what the code measures of it: a file's content is   *)
(* the sequence of its lines, each line a record of its length and its     *)
(* identity, so that len(text), len(text) // 4 and "the line at index i"   *)
(* are computed and not assumed.                                           *)
(***************************************************************************)
EXTENDS Integers, Sequences, FiniteSets, TLC

VARIABLES
  \* ---- cost model (CostManifest, repo_map/core/cost.py) ----
  cm_budget,            \* CostManifest.budget
  cm_files,             \* CostManifest.files: path -> cost table
  cm_actual,            \* CostManifest._actual
  cm_calls,             \* the add_file calls made so far: <<costs, rendered_level>>
  \* ---- flight plan verbosity resolver (FlightPlan, repo_map/core/flight_plan.py) ----
  fp_verbosity,         \* FlightPlan.verbosity: the ordered rule list
  fp_path,              \* the rel_path asked about
  fp_level,             \* what get_verbosity_for_path returned
  fp_sections,          \* what get_section_rules_for_path returned
  fp_pc,                \* "ask" before the resolver ran, "done" after
  \* ---- multi-resolution renderer (ContextRenderer.render, repo_map/core/renderer.py) ----
  rd_flight_plan,       \* ContextRenderer.flight_plan: [some, budget, verbosity]
  rd_default_verbosity, \* ContextRenderer.default_verbosity
  rd_files,             \* render's argument files, as file ids
  rd_show_costs,        \* render's argument show_costs
  rd_strict,            \* render's argument strict
  rd_i,                 \* index of the file the loop visits next
  rd_total_tokens,      \* total_tokens
  rd_output_parts,      \* output_parts: one entry per emitted file
  rd_summary,           \* the summary line appended after the loop
  rd_error,             \* the exception raised, if any
  rd_pc,                \* "loop", "returned" or "raised"
  \* ---- ranked repository map (RepoMap, repo_map/core/repomap.py) ----
  rm_max_map_tokens,    \* RepoMap.max_map_tokens
  rm_fnames,            \* get_repo_map's argument fnames, as the set of its names
  rm_corpus,            \* the repository the files are taken from
  rm_fault,             \* what is wrong with one of the files, if anything
  rm_hashseed,          \* the hash seed of the process
  rm_tree_cache,        \* RepoMap._tree_cache
  rm_tree_context_cache,\* RepoMap._tree_context_cache
  rm_warned_files,      \* RepoMap._warned_files
  rm_ranked_tags,       \* get_repo_map's ranked_tags
  rm_lower_bound,       \* lower_bound
  rm_upper_bound,       \* upper_bound
  rm_middle,            \* middle
  rm_best_tree,         \* best_tree: [some, text]
  rm_best_tree_tokens,  \* best_tree_tokens
  rm_probes,            \* the probes of the running call: [middle, num_tokens, kept]
  rm_effects,           \* what the running call looked at, opened, ranked and rendered
  rm_results,           \* what the calls made so far returned or raised
  rm_pc,                \* "ready", "search", "break", "returned" or "raised"
  \* ---- tag ranking (RepoMap._get_ranked_tags, repo_map/core/repomap.py) ----
  rk_files,             \* the files named by the argument fnames, as they are on disk
  rk_hashseed,          \* the hash seed of the process
  rk_failures,          \* how many calls of nx.pagerank raise ZeroDivisionError
  rk_tags,              \* the tags the loop over the files gathered
  rk_edges,             \* the edges of G
  rk_ranked,            \* what nx.pagerank returned
  rk_ranked_tags,       \* what _get_ranked_tags returned
  rk_pc,                \* "ready" before the call, "done" after
  \* ---- excerpt cache (RepoMap._render_tree, repo_map/core/repomap.py) ----
  tc_files,             \* the files on disk: path -> [mtime, edited]
  tc_tree_cache,        \* RepoMap._tree_cache
  tc_tree_context_cache,\* RepoMap._tree_context_cache
  tc_last,              \* the last call of _render_tree: request, cache before, result
  tc_renders,           \* the calls of _render_tree made so far
  tc_pc,                \* "run" while an engine is in use
  \* ---- budget plugin (BudgetEnforcementPlugin, repo_map/navigator/plugin.py) ----
  pl_state,             \* session.state["navigator"], or NoState
  pl_last_iteration_cost,\* BudgetEnforcementPlugin._last_iteration_cost
  pl_last,              \* the last callback: its name, argument, state before, result
  pl_calls,             \* the callbacks run so far
  \* ---- autonomous loop (run_autonomous, repo_map/navigator/runner.py) ----
  rn_max_iterations,    \* run_autonomous's argument max_iterations
  rn_session,           \* session.state["navigator"] of the session
  rn_state,             \* the local state
  rn_iteration,         \* iteration
  rn_final_response,    \* final_response of the running iteration
  rn_yielded,           \* the items the generator yielded so far
  rn_pc,                \* where the generator stands
  \* ---- navigator tools (update_flight_plan, finalize_context, repo_map/navigator/tools.py) ----
  tl_session,           \* session.state["navigator"], or NoState
  tl_artifact,          \* the artifact stored as current_map.txt
  tl_calls,             \* the tool invocations: call -> its frame
  tl_overlap,           \* how many invocations the event loop may have in flight
  tl_started            \* the invocations started so far

cmVars == <<cm_budget, cm_files, cm_actual, cm_calls>>

fpVars == <<fp_verbosity, fp_path, fp_level, fp_sections, fp_pc>>

rdVars == <<rd_flight_plan, rd_default_verbosity, rd_files, rd_show_costs,
            rd_strict, rd_i, rd_total_tokens, rd_output_parts, rd_summary,
            rd_error, rd_pc>>

rmVars == <<rm_max_map_tokens, rm_fnames, rm_corpus, rm_fault, rm_hashseed,
            rm_tree_cache, rm_tree_context_cache, rm_warned_files,
            rm_ranked_tags, rm_lower_bound, rm_upper_bound, rm_middle,
            rm_best_tree, rm_best_tree_tokens, rm_probes, rm_effects,
            rm_results, rm_pc>>

rkVars == <<rk_files, rk_hashseed, rk_failures, rk_tags, rk_edges, rk_ranked,
            rk_ranked_tags, rk_pc>>

tcVars == <<tc_files, tc_tree_cache, tc_tree_context_cache, tc_last, tc_renders,
            tc_pc>>

plVars == <<pl_state, pl_last_iteration_cost, pl_last, pl_calls>>

rnVars == <<rn_max_iterations, rn_session, rn_state, rn_iteration,
            rn_final_response, rn_yielded, rn_pc>>

tlVars == <<tl_session, tl_artifact, tl_calls, tl_overlap, tl_started>>

nvVars == <<plVars, rnVars, tlVars>>

vars == <<cmVars, fpVars, rdVars, rmVars, rkVars, tcVars, nvVars>>

-----------------------------------------------------------------------------
(***************************************************************************)
(* Generic helpers.                                                        *)
(***************************************************************************)

Min(a, b) == IF a <= b THEN a ELSE b

Max(a, b) == IF a >= b THEN a ELSE b

Abs(a) == IF a >= 0 THEN a ELSE 0 - a

Range(s) == {s[i] : i \in 1..Len(s)}

RECURSIVE SumSeq(_)
SumSeq(s) == IF s = <<>> THEN 0 ELSE Head(s) + SumSeq(Tail(s))

RECURSIVE SortBy(_, _)
\* The elements of the finite set S as a sequence, ascending by the integer
\* key[x] (key is a function that is injective on S).
SortBy(S, key) ==
  IF S = {} THEN <<>>
  ELSE LET x == CHOOSE y \in S : \A z \in S : key[y] <= key[z]
       IN <<x>> \o SortBy(S \ {x}, key)

Reverse(s) == [i \in 1..Len(s) |-> s[Len(s) + 1 - i]]

-----------------------------------------------------------------------------
(***************************************************************************)
(* Text.  A str is the sequence of its lines (what str.splitlines()        *)
(* returns) and whether it ends with a newline; a line is known by where   *)
(* it comes from and by its length.  "\n" is the only line separator of    *)
(* the modelled texts.  The canonical form has no empty last line unless   *)
(* the text ends with a newline.                                           *)
(***************************************************************************)

EmptyText == [lines |-> <<>>, nl |-> FALSE]

\* len(text)
TextLen(t) ==
  SumSeq([i \in 1..Len(t.lines) |-> t.lines[i].len])
    + (IF Len(t.lines) > 0 THEN Len(t.lines) - 1 ELSE 0)
    + (IF t.nl THEN 1 ELSE 0)

\* text.splitlines()
splitlines(t) == t.lines

\* "\n".join(ls): a last element that is the empty string leaves a text
\* that ends with the newline before it.
Join(ls) ==
  IF ls = <<>> THEN EmptyText
  ELSE IF ls[Len(ls)].len = 0
       THEN [lines |-> SubSeq(ls, 1, Len(ls) - 1), nl |-> Len(ls) > 1]
       ELSE [lines |-> ls, nl |-> FALSE]

\* Path(file_path).name: what follows the last "/" of a path (a tuple of characters).
RECURSIVE Basename(_)
Basename(path) ==
  IF \E i \in 1..Len(path) : path[i] = "/"
  THEN Basename(Tail(path))
  ELSE path

-----------------------------------------------------------------------------
(***************************************************************************)
(* Verbosity levels and the cost model (verbosity.py, cost.py).            *)
(***************************************************************************)

EXCLUDE == 0

EXISTENCE == 1

STRUCTURE == 2

INTERFACE == 3

IMPLEMENTATION == 4

VerbosityLevel == {EXCLUDE, EXISTENCE, STRUCTURE, INTERFACE, IMPLEMENTATION}

\* estimate_tokens(text), given len(text).
estimate_tokens(len) == len \div 4

\* The fixed level-1 estimate of cost.calculate_file_costs.
L1_TOKENS == 5

\* An optional str argument: None, or a text.
NoneText == [some |-> FALSE, text |-> EmptyText]

SomeText(t) == [some |-> TRUE, text |-> t]

\* cost.calculate_file_costs(content, structure_content, interface_content).
\* int(l4 * 0.4) and int(l4 * 0.15) are floor(2 * l4 / 5) and floor(3 * l4 / 20)
\* for every l4 a double multiplies exactly enough, which all token counts are.
cost_calculate_file_costs(content, structure_content, interface_content) ==
  LET l4_tokens == estimate_tokens(TextLen(content))
      l3_tokens == IF interface_content.some
                   THEN estimate_tokens(TextLen(interface_content.text))
                   ELSE (l4_tokens * 4) \div 10
      l2_tokens == IF structure_content.some
                   THEN estimate_tokens(TextLen(structure_content.text))
                   ELSE (l4_tokens * 15) \div 100
      l1_tokens == L1_TOKENS
      l0_tokens == 0
  IN [l \in VerbosityLevel |->
        CASE l = EXCLUDE -> l0_tokens
          [] l = EXISTENCE -> l1_tokens
          [] l = STRUCTURE -> l2_tokens
          [] l = INTERFACE -> l3_tokens
          [] OTHER -> l4_tokens]

\* costs.get(rendered_level, 0)
CostsGet(costs, level) == IF level \in DOMAIN costs THEN costs[level] ELSE 0

\* CostManifest.overrun
overrun == Max(0, cm_actual - cm_budget)

\* CostManifest.is_over_budget
is_over_budget == cm_actual > cm_budget

-----------------------------------------------------------------------------
(***************************************************************************)
(* Structural tag extraction (tags.py).  What tree-sitter, the query files *)
(* and pygments give for a file is data of the file descriptor fd:         *)
(*   lang      filename_to_lang(fname) found a language                    *)
(*   loadable  get_language / get_parser succeed                           *)
(*   scm       the verbosity hints for which get_scm_fname finds a query   *)
(*             file ("tags", "structure", "interface")                     *)
(*   query_ok  language.query / query.captures run without an exception    *)
(*   captures  query name -> the captures, each [tag, text, line]          *)
(*   lexer_ok  guess_lexer_for_filename finds a lexer                      *)
(*   tokens    the Token.Name tokens pygments yields                       *)
(***************************************************************************)

\* get_scm_fname: the query file used for a verbosity hint, with its
\* fallback to the default tags query; "none" when neither exists.
get_scm_fname(fd, verbosity) ==
  LET query_files == CASE verbosity = STRUCTURE -> <<"structure", "tags">>
                       [] verbosity = INTERFACE -> <<"interface", "tags">>
                       [] OTHER -> <<"tags">>
      found == {i \in 1..Len(query_files) : query_files[i] \in fd.scm}
  IN IF found = {} THEN "none"
     ELSE query_files[CHOOSE i \in found : \A j \in found : i <= j]

\* tag.startswith("name.definition.") / tag.startswith("name.reference.")
CaptureKind(tag) ==
  CASE tag = "name.definition" -> "def"
    [] tag = "name.reference" -> "ref"
    [] OTHER -> "skip"

RECURSIVE TagsOfCaptures(_, _)
TagsOfCaptures(rel_fname, caps) ==
  IF caps = <<>> THEN <<>>
  ELSE LET c == Head(caps)
           kind == CaptureKind(c.tag)
           rest == TagsOfCaptures(rel_fname, Tail(caps))
       IN IF kind = "skip" THEN rest
          ELSE <<[rel_fname |-> rel_fname, line |-> c.line,
                  name |-> c.text, kind |-> kind]>> \o rest

\* get_tags_from_code(fname, rel_fname, code, verbosity), verbosity -1 for None:
\* [raised, tags].  Only the query run (tags.py lines 140-145) is outside any
\* try block.
get_tags_from_code(fd, rel_fname, verbosity) ==
  LET scm == get_scm_fname(fd, verbosity)
      tags == TagsOfCaptures(rel_fname, fd.captures[scm])
      saw == {tags[i].kind : i \in 1..Len(tags)}
      backfill == [i \in 1..Len(fd.tokens) |->
                     [rel_fname |-> rel_fname, line |-> -1,
                      name |-> fd.tokens[i], kind |-> "ref"]]
  IN IF ~fd.lang THEN [raised |-> FALSE, tags |-> <<>>]
     ELSE IF ~fd.loadable THEN [raised |-> FALSE, tags |-> <<>>]
     ELSE IF scm = "none" THEN [raised |-> FALSE, tags |-> <<>>]
     ELSE IF ~fd.query_ok THEN [raised |-> TRUE, tags |-> <<>>]
     ELSE IF "ref" \in saw THEN [raised |-> FALSE, tags |-> tags]
     ELSE IF "def" \notin saw THEN [raised |-> FALSE, tags |-> tags]
     ELSE IF ~fd.lexer_ok THEN [raised |-> FALSE, tags |-> tags]
     ELSE [raised |-> FALSE, tags |-> tags \o backfill]

-----------------------------------------------------------------------------
(***************************************************************************)
(* Flight plan verbosity resolver (flight_plan.py).  Paths and patterns    *)
(* are tuples of characters.  A VerbosityRule is                           *)
(*   [pattern, level, has_sections, sections]                              *)
(* with level NoLevel for None and has_sections FALSE for sections = None  *)
(* (the validator lets exactly one of the two be set); a SectionVerbosity  *)
(* is [pattern, level].                                                    *)
(***************************************************************************)

NoLevel == -1

\* fnmatch.fnmatch(name, pat) for patterns of literals, "?" and "*":
\* "*" matches any run of characters, "/" included; the whole name must match.
RECURSIVE fnmatch(_, _)
fnmatch(name, pat) ==
  IF pat = <<>> THEN name = <<>>
  ELSE IF Head(pat) = "*"
       THEN \/ fnmatch(name, Tail(pat))
            \/ name # <<>> /\ fnmatch(Tail(name), pat)
  ELSE IF name = <<>> THEN FALSE
  ELSE IF Head(pat) = "?" THEN fnmatch(Tail(name), Tail(pat))
  ELSE Head(name) = Head(pat) /\ fnmatch(Tail(name), Tail(pat))

\* FlightPlan.get_verbosity_for_path: the loop over self.verbosity, on the
\* rules that are left, with the level found so far.
RECURSIVE VerbosityLoop(_, _, _)
VerbosityLoop(rules, rel_path, level) ==
  IF rules = <<>> THEN level
  ELSE LET rule == Head(rules)
       IN VerbosityLoop(Tail(rules), rel_path,
            IF fnmatch(rel_path, rule.pattern) /\ rule.level # NoLevel
            THEN rule.level
            ELSE level)

\* The resolver with the rule list walked backwards: the first match wins.
get_verbosity_first_match(verbosity, rel_path) ==
  VerbosityLoop(Reverse(verbosity), rel_path, IMPLEMENTATION)

get_verbosity_for_path(verbosity, rel_path) ==
  VerbosityLoop(verbosity, rel_path, IMPLEMENTATION)

\* FlightPlan.get_section_rules_for_path: [some, sections], some FALSE for None.
RECURSIVE get_section_rules_for_path(_, _)
get_section_rules_for_path(verbosity, rel_path) ==
  IF verbosity = <<>> THEN [some |-> FALSE, sections |-> <<>>]
  ELSE LET rule == Head(verbosity)
       IN IF fnmatch(rel_path, rule.pattern) /\ rule.has_sections
          THEN [some |-> TRUE, sections |-> rule.sections]
          ELSE get_section_rules_for_path(Tail(verbosity), rel_path)

LevelRule(pattern, level) ==
  [pattern |-> pattern, level |-> level, has_sections |-> FALSE, sections |-> <<>>]

SectionsRule(pattern, sections) ==
  [pattern |-> pattern, level |-> NoLevel, has_sections |-> TRUE, sections |-> sections]

-----------------------------------------------------------------------------
(***************************************************************************)
(* The files handed to the multi-resolution renderer: (file_path, content) *)
(* pairs, with what tag extraction finds in each.                          *)
(***************************************************************************)

MkText(src, lens, nl) ==
  [lines |-> [i \in 1..Len(lens) |-> [src |-> src, idx |-> i - 1, len |-> lens[i]]],
   nl |-> nl]

Capture(tag, text, line) == [tag |-> tag, text |-> text, line |-> line]

NoCaptures == [q \in {"tags", "structure", "interface"} |-> <<>>]

RenderFileIds == {"calc", "test", "log", "empty"}

\* s/c.py: a class with a method; the structure query captures the class
\* name twice, a reference, the method and a node on the row after the last
\* line (the content ends with a newline).
CalcFile ==
  [path |-> <<"s", "/", "c", ".", "p", "y">>,
   content |-> MkText("calc", <<16, 24, 0, 21>>, TRUE),
   lang |-> TRUE, loadable |-> TRUE, query_ok |-> TRUE,
   scm |-> {"tags", "structure", "interface"},
   captures |->
     [q \in {"tags", "structure", "interface"} |->
        CASE q = "structure" ->
               <<Capture("name.definition", <<"C">>, 0),
                 Capture("definition", <<"C">>, 0),
                 Capture("name.definition", <<"C">>, 0),
                 Capture("name.reference", <<"p">>, 1),
                 Capture("name.definition", <<"a">>, 3),
                 Capture("name.definition", <<>>, 4)>>
          [] q = "interface" ->
               <<Capture("name.definition", <<"a">>, 3),
                 Capture("name.definition", <<"C">>, 0),
                 Capture("name.definition", <<"d">>, 1),
                 Capture("name.definition", <<"a">>, 3)>>
          [] OTHER ->
               <<Capture("name.definition", <<"C">>, 0),
                 Capture("name.reference", <<"p">>, 1)>>],
   lexer_ok |-> TRUE, tokens |-> <<>>]

\* t/t_c.py: one import line; only the default tags query exists for it and
\* it captures a reference and no definition.
TestFile ==
  [path |-> <<"t", "/", "t", "_", "c", ".", "p", "y">>,
   content |-> MkText("test", <<9>>, FALSE),
   lang |-> TRUE, loadable |-> TRUE, query_ok |-> TRUE,
   scm |-> {"tags"},
   captures |->
     [q \in {"tags", "structure", "interface"} |->
        IF q = "tags" THEN <<Capture("name.reference", <<"x">>, 0)>> ELSE <<>>],
   lexer_ok |-> TRUE, tokens |-> <<>>]

\* a.log: no language for the extension.
LogFile ==
  [path |-> <<"a", ".", "l", "o", "g">>,
   content |-> MkText("log", <<30, 12>>, TRUE),
   lang |-> FALSE, loadable |-> FALSE, query_ok |-> TRUE,
   scm |-> {}, captures |-> NoCaptures,
   lexer_ok |-> FALSE, tokens |-> <<>>]

\* e.py: an empty file.
EmptyFile ==
  [path |-> <<"e", ".", "p", "y">>,
   content |-> EmptyText,
   lang |-> TRUE, loadable |-> TRUE, query_ok |-> TRUE,
   scm |-> {"tags", "structure", "interface"}, captures |-> NoCaptures,
   lexer_ok |-> TRUE, tokens |-> <<>>]

\* q.py: a file on which running the query raises.
BadQueryFile ==
  [path |-> <<"q", ".", "p", "y">>,
   content |-> MkText("bad", <<14>>, TRUE),
   lang |-> TRUE, loadable |-> TRUE, query_ok |-> FALSE,
   scm |-> {"tags", "structure", "interface"}, captures |-> NoCaptures,
   lexer_ok |-> TRUE, tokens |-> <<>>]

RenderFile(id) ==
  CASE id = "calc" -> CalcFile
    [] id = "test" -> TestFile
    [] id = "log" -> LogFile
    [] id = "bad" -> BadQueryFile
    [] OTHER -> EmptyFile

-----------------------------------------------------------------------------
(***************************************************************************)
(* Multi-resolution renderer (renderer.py).                                *)
(***************************************************************************)

\* The tag loop without the seen_lines test: a tag is emitted every time.
RECURSIVE TagLoop_NoDedup(_, _, _, _)
TagLoop_NoDedup(tags, lines, output_lines, seen_lines) ==
  IF tags = <<>> THEN output_lines
  ELSE LET tag == Head(tags)
       IN IF tag.kind = "def" /\ 0 <= tag.line /\ tag.line < Len(lines)
          THEN TagLoop_NoDedup(Tail(tags), lines,
                               Append(output_lines, lines[tag.line + 1]),
                               seen_lines)
          ELSE TagLoop_NoDedup(Tail(tags), lines, output_lines, seen_lines)

\* The loop of _render_with_treesitter over the tags: the output lines and
\* the line numbers seen so far.
RECURSIVE TagLoop(_, _, _, _)
TagLoop(tags, lines, output_lines, seen_lines) ==
  IF tags = <<>> THEN output_lines
  ELSE LET tag == Head(tags)
           is_def == tag.kind = "def"
           is_new == tag.line \notin seen_lines
           is_valid == 0 <= tag.line /\ tag.line < Len(lines)
       IN IF is_def /\ is_new /\ is_valid
          THEN TagLoop(Tail(tags), lines,
                       Append(output_lines, lines[tag.line + 1]),
                       seen_lines \cup {tag.line})
          ELSE TagLoop(Tail(tags), lines, output_lines, seen_lines)

\* ContextRenderer._render_with_treesitter(file_path, content, verbosity):
\* [raised, text].
render_with_treesitter(fd, verbosity) ==
  LET got == get_tags_from_code(fd, Basename(fd.path), verbosity)
  IN IF ~fd.lang THEN [raised |-> FALSE, text |-> fd.content]
     ELSE IF got.raised THEN [raised |-> TRUE, text |-> EmptyText]
     ELSE IF got.tags = <<>> THEN [raised |-> FALSE, text |-> EmptyText]
     ELSE [raised |-> FALSE,
           text |-> Join(TagLoop(got.tags, splitlines(fd.content), <<>>, {}))]

\* ContextRenderer.render_file_at_level(file_path, content, verbosity): [raised, text].
render_file_at_level(fd, verbosity) ==
  IF verbosity = EXCLUDE THEN [raised |-> FALSE, text |-> EmptyText]
  ELSE IF verbosity = EXISTENCE THEN [raised |-> FALSE, text |-> EmptyText]
  ELSE IF verbosity = IMPLEMENTATION THEN [raised |-> FALSE, text |-> fd.content]
  ELSE render_with_treesitter(fd, verbosity)

\* ContextRenderer.calculate_file_costs(file_path, content).
renderer_calculate_file_costs(fd) ==
  LET rel_path == Basename(fd.path)
      structure_content == render_file_at_level(fd, STRUCTURE).text
      interface_content == render_file_at_level(fd, INTERFACE).text
  IN [l \in VerbosityLevel |->
        CASE l = EXCLUDE -> 0
          [] l = EXISTENCE -> estimate_tokens(Len(rel_path))
          [] l = STRUCTURE -> estimate_tokens(TextLen(structure_content))
          [] l = INTERFACE -> estimate_tokens(TextLen(interface_content))
          [] OTHER -> estimate_tokens(TextLen(fd.content))]

-----------------------------------------------------------------------------
(***************************************************************************)
(* CostManifest (cost.py): a manifest is built with a budget and files are *)
(* added one at a time, each with a cost table and the level it was        *)
(* rendered at.  The tables come from cost.calculate_file_costs (estimated *)
(* or with the rendered level-2/3 contents given), from                    *)
(* ContextRenderer.calculate_file_costs, or hold the full-content level    *)
(* only.                                                                   *)
(***************************************************************************)

MaxAdds == 2

ManifestBudgets == {5, 16}

CostSources == {"estimated", "exact", "renderer", "partial"}

\* The files whose cost tables are added.
CostFileIds == {"calc", "log", "empty"}

CostTable(id, how) ==
  LET fd == RenderFile(id)
  IN CASE how = "estimated" ->
            cost_calculate_file_costs(fd.content, NoneText, NoneText)
       [] how = "exact" ->
            cost_calculate_file_costs(fd.content,
              SomeText(render_file_at_level(fd, STRUCTURE).text),
              SomeText(render_file_at_level(fd, INTERFACE).text))
       [] how = "renderer" -> renderer_calculate_file_costs(fd)
       [] OTHER ->
            [l \in {IMPLEMENTATION} |-> estimate_tokens(TextLen(fd.content))]

\* add_file with "=" where the code has "+=".
add_file_actual_overwrite(actual, costs, rendered_level) ==
  CostsGet(costs, rendered_level)

\* CostManifest.add_file: self._actual += costs.get(rendered_level, 0)
add_file_actual(actual, costs, rendered_level) ==
  actual + CostsGet(costs, rendered_level)

\* CostManifest.add_file: self.files[path] = costs
add_file_files(files, path, costs) ==
  [p \in DOMAIN files \cup {path} |-> IF p = path THEN costs ELSE files[p]]

InitManifest ==
  /\ cm_budget \in ManifestBudgets
  /\ cm_files = <<>>
  /\ cm_actual = 0
  /\ cm_calls = <<>>

IdleManifest ==
  /\ cm_budget = 16
  /\ cm_files = <<>>
  /\ cm_actual = 0
  /\ cm_calls = <<>>

IdleFlightPlan ==
  /\ fp_verbosity = <<>>
  /\ fp_path = <<>>
  /\ fp_level = NoLevel
  /\ fp_sections = [some |-> FALSE, sections |-> <<>>]
  /\ fp_pc = "idle"

AddFile ==
  /\ Len(cm_calls) < MaxAdds
  /\ \E id \in CostFileIds, how \in CostSources, rendered_level \in VerbosityLevel :
       LET path == RenderFile(id).path
           costs == CostTable(id, how)
       IN /\ cm_files' = add_file_files(cm_files, path, costs)
          /\ cm_actual' = add_file_actual(cm_actual, costs, rendered_level)
          /\ cm_calls' = Append(cm_calls,
               [file |-> id, how |-> how, costs |-> costs, level |-> rendered_level])
  /\ UNCHANGED <<cm_budget, fpVars, rdVars, rmVars, rkVars, tcVars, nvVars>>

-----------------------------------------------------------------------------
(***************************************************************************)
(* The resolver applied to one path under one rule list.                   *)
(***************************************************************************)

MaxRules == 3

FpPatterns ==
  {<<"*", ".", "p", "y">>, <<"t", "/", "*">>, <<"s", "/", "?", ".", "p", "y">>}

FpSectionLists ==
  {<<>>,
   <<[pattern |-> <<"C", "*">>, level |-> STRUCTURE],
     [pattern |-> <<"*">>, level |-> EXISTENCE]>>}

FpRules ==
  {LevelRule(p, l) : p \in FpPatterns, l \in VerbosityLevel}
    \cup {SectionsRule(<<"*", ".", "p", "y">>, sl) : sl \in FpSectionLists}

FpPaths == {RenderFile(id).path : id \in RenderFileIds}

RuleLists(n) == UNION {[1..k -> FpRules] : k \in 0..n}

InitFlightPlan ==
  /\ fp_verbosity \in RuleLists(MaxRules)
  /\ fp_path \in FpPaths
  /\ fp_level = NoLevel
  /\ fp_sections = [some |-> FALSE, sections |-> <<>>]
  /\ fp_pc = "ask"

Resolve ==
  /\ fp_pc = "ask"
  /\ fp_level' = get_verbosity_for_path(fp_verbosity, fp_path)
  /\ fp_sections' = get_section_rules_for_path(fp_verbosity, fp_path)
  /\ fp_pc' = "done"
  /\ UNCHANGED <<fp_verbosity, fp_path, cmVars, rdVars, rmVars, rkVars, tcVars, nvVars>>

-----------------------------------------------------------------------------
(***************************************************************************)
(* ContextRenderer.render(files, show_costs, strict): one step per file of *)
(* the loop, then the summary.                                             *)
(***************************************************************************)

MaxRenderFiles == 2

RdMaxRules == 2

\* The budget render uses when the renderer has no flight plan.
DEFAULT_BUDGET == 20000

RenderBudgets == {11, 16, 27}

RdRules ==
  {LevelRule(<<"*", ".", "p", "y">>, STRUCTURE),
   LevelRule(<<"*", ".", "p", "y">>, INTERFACE),
   LevelRule(<<"*">>, EXISTENCE),
   LevelRule(<<"?", ".", "*">>, EXCLUDE)}

RenderPlans == UNION {[1..k -> RdRules] : k \in 0..RdMaxRules}

AllRenderFileIds == RenderFileIds \cup {"bad"}

\* Lists of distinct files, at most n long.
FileLists(n) ==
  {fl \in UNION {[1..k -> AllRenderFileIds] : k \in 0..n} :
     \A i, j \in 1..Len(fl) : i # j => fl[i] # fl[j]}

\* render: budget = self.flight_plan.budget if self.flight_plan else 20000
RenderBudget ==
  IF rd_flight_plan.some THEN rd_flight_plan.budget ELSE DEFAULT_BUDGET

\* ContextRenderer.get_verbosity_for_path(file_path)
renderer_get_verbosity_for_path(file_path) ==
  IF rd_flight_plan.some
  THEN get_verbosity_for_path(rd_flight_plan.verbosity, file_path)
  ELSE rd_default_verbosity

\* render: tokens = estimate_tokens(rendered) if rendered else estimate_tokens(file_path)
RenderTokens(fd, rendered) ==
  IF TextLen(rendered) > 0
  THEN estimate_tokens(TextLen(rendered))
  ELSE estimate_tokens(Len(fd.path))

\* render: if verbosity == VerbosityLevel.EXCLUDE: continue
SkipFile(verbosity) == verbosity = EXCLUDE

\* The strict test made on the running total alone, before the file is added.
BudgetExceeded_BeforeAdd(strict, total_tokens, tokens, budget) ==
  strict /\ total_tokens > budget

\* render: if strict and total_tokens + tokens > budget: raise
BudgetExceeded(strict, total_tokens, tokens, budget) ==
  strict /\ total_tokens + tokens > budget

\* The marker put on a total that only reaches the budget.
OverBudgetMarker_AtBudget(total_tokens, budget) == total_tokens >= budget

\* render: if total_tokens > budget: summary += " OVER BUDGET"
OverBudgetMarker(total_tokens, budget) == total_tokens > budget

NoError == [kind |-> "none", file |-> "none", total |-> 0, budget |-> 0]

NoSummary == [some |-> FALSE, total |-> 0, budget |-> 0, over |-> FALSE]

NoCosts == [some |-> FALSE, table |-> [l \in VerbosityLevel |-> 0]]

InitRender ==
  /\ rd_flight_plan \in
       {[some |-> TRUE, budget |-> b, verbosity |-> v] :
          b \in RenderBudgets, v \in RenderPlans}
         \cup {[some |-> FALSE, budget |-> 0, verbosity |-> <<>>]}
  /\ rd_default_verbosity \in
       IF rd_flight_plan.some THEN {STRUCTURE} ELSE VerbosityLevel
  /\ rd_files \in FileLists(MaxRenderFiles)
  /\ rd_show_costs \in BOOLEAN
  /\ rd_strict \in BOOLEAN
  /\ rd_i = 1
  /\ rd_total_tokens = 0
  /\ rd_output_parts = <<>>
  /\ rd_summary = NoSummary
  /\ rd_error = NoError
  /\ rd_pc = "loop"

IdleRender ==
  /\ rd_flight_plan = [some |-> FALSE, budget |-> 0, verbosity |-> <<>>]
  /\ rd_default_verbosity = STRUCTURE
  /\ rd_files = <<>>
  /\ rd_show_costs = FALSE
  /\ rd_strict = FALSE
  /\ rd_i = 1
  /\ rd_total_tokens = 0
  /\ rd_output_parts = <<>>
  /\ rd_summary = NoSummary
  /\ rd_error = NoError
  /\ rd_pc = "idle"

\* One iteration of render's loop over files.
RenderStep ==
  /\ rd_pc = "loop"
  /\ rd_i <= Len(rd_files)
  /\ LET id == rd_files[rd_i]
         fd == RenderFile(id)
         verbosity == renderer_get_verbosity_for_path(fd.path)
         r == render_file_at_level(fd, verbosity)
         rendered == r.text
         tokens == RenderTokens(fd, rendered)
         budget == RenderBudget
         costs == IF rd_show_costs
                  THEN [some |-> TRUE, table |-> renderer_calculate_file_costs(fd)]
                  ELSE NoCosts
         body == IF verbosity = EXISTENCE THEN "path_only"
                 ELSE IF TextLen(rendered) > 0 THEN "fenced"
                 ELSE "none"
     IN IF SkipFile(verbosity)
        THEN /\ rd_i' = rd_i + 1
             /\ UNCHANGED <<rd_total_tokens, rd_output_parts, rd_error, rd_pc>>
        ELSE IF r.raised
        THEN /\ rd_pc' = "raised"
             /\ rd_error' = [kind |-> "query", file |-> id,
                             total |-> rd_total_tokens, budget |-> budget]
             /\ UNCHANGED <<rd_i, rd_total_tokens, rd_output_parts>>
        ELSE IF BudgetExceeded(rd_strict, rd_total_tokens, tokens, budget)
        THEN /\ rd_pc' = "raised"
             /\ rd_error' = [kind |-> "budget", file |-> id,
                             total |-> rd_total_tokens + tokens, budget |-> budget]
             /\ UNCHANGED <<rd_i, rd_total_tokens, rd_output_parts>>
        ELSE IF rd_show_costs /\ (render_file_at_level(fd, STRUCTURE).raised
                                    \/ render_file_at_level(fd, INTERFACE).raised)
        THEN /\ rd_pc' = "raised"
             /\ rd_error' = [kind |-> "query", file |-> id,
                             total |-> rd_total_tokens + tokens, budget |-> budget]
             /\ rd_total_tokens' = rd_total_tokens + tokens
             /\ UNCHANGED <<rd_i, rd_output_parts>>
        ELSE /\ rd_total_tokens' = rd_total_tokens + tokens
             /\ rd_output_parts' = Append(rd_output_parts,
                  [file |-> id, level |-> verbosity, tokens |-> tokens,
                   costs |-> costs, body |-> body, text |-> rendered])
             /\ rd_i' = rd_i + 1
             /\ UNCHANGED <<rd_error, rd_pc>>
  /\ UNCHANGED <<rd_flight_plan, rd_default_verbosity, rd_files, rd_show_costs,
                 rd_strict, rd_summary, cmVars, fpVars, rmVars, rkVars, tcVars, nvVars>>

\* After the loop: the budget summary is appended and render returns.
RenderSummary ==
  /\ rd_pc = "loop"
  /\ rd_i > Len(rd_files)
  /\ rd_summary' = [some |-> TRUE, total |-> rd_total_tokens, budget |-> RenderBudget,
                    over |-> OverBudgetMarker(rd_total_tokens, RenderBudget)]
  /\ rd_pc' = "returned"
  /\ UNCHANGED <<rd_flight_plan, rd_default_verbosity, rd_files, rd_show_costs,
                 rd_strict, rd_i, rd_total_tokens, rd_output_parts, rd_error,
                 cmVars, fpVars, rmVars, rkVars, tcVars, nvVars>>

\* len(str(n)) for an int n >= 0
RECURSIVE DecLen(_)
DecLen(n) == IF n < 10 THEN 1 ELSE 1 + DecLen(n \div 10)

\* len("## \n"), len("# Costs: L0=, L1=, L2=, L3=, L4= tokens\n"),
\* len("# [path only -  tokens]\n"), len("```\n\n```\n"),
\* len("\n# Total: / tokens") and len(" ⚠️ OVER BUDGET")
HEADER_LEN == 4

COSTS_LINE_LEN == 40

PATH_ONLY_LEN == 24

FENCE_LEN == 9

SUMMARY_LEN == 18

OVER_BUDGET_LEN == 15

\* len(file_output) of one entry of output_parts
FileOutputLen(part) ==
  HEADER_LEN + Len(RenderFile(part.file).path)
    + (IF part.costs.some
       THEN COSTS_LINE_LEN
              + SumSeq([l \in 1..5 |-> DecLen(part.costs.table[l - 1])])
       ELSE 0)
    + (CASE part.body = "path_only" -> PATH_ONLY_LEN + DecLen(part.tokens)
         [] part.body = "fenced" -> FENCE_LEN + TextLen(part.text)
         [] OTHER -> 0)

\* len(summary)
SummaryLen(summary) ==
  SUMMARY_LEN + DecLen(summary.total) + DecLen(summary.budget)
    + (IF summary.over THEN OVER_BUDGET_LEN ELSE 0)

\* len("\n".join(output_parts)) once the summary is appended
RenderedLen(output_parts, summary) ==
  SumSeq([i \in 1..Len(output_parts) |-> FileOutputLen(output_parts[i])])
    + SummaryLen(summary) + Len(output_parts)

\* generate_repomap with a flight plan: total_tokens = estimate_tokens(rendered)
MapResultTotalTokens(output_parts, summary) ==
  estimate_tokens(RenderedLen(output_parts, summary))

-----------------------------------------------------------------------------
(***************************************************************************)
(* Ranked repository map (repomap.py).  File names and identifiers are     *)
(* tuples of characters; the repository root is fixed, so a file's         *)
(* absolute and relative names order alike and one name stands for both.   *)
(* nx.pagerank (networkx) and TreeContext (grep_ast) are libraries: the    *)
(* first is modelled as a fixed number of power iterations in fixed-point  *)
(* arithmetic, the second as a function of the file's code and of the      *)
(* lines of interest it holds when add_context() is called.                *)
(***************************************************************************)

\* The characters of the modelled names, in code point order.
AsciiOrder ==
  <<"-", ".", "/",
    "A", "B", "C", "D", "E", "F", "G", "H", "I", "J", "K", "L", "M",
    "N", "O", "P", "Q", "R", "S", "T", "U", "V", "W", "X", "Y", "Z", "_",
    "a", "b", "c", "d", "e", "f", "g", "h", "i", "j", "k", "l", "m",
    "n", "o", "p", "q", "r", "s", "t", "u", "v", "w", "x", "y", "z">>

\* ord(c)
Ord(c) == CHOOSE i \in 1..Len(AsciiOrder) : AsciiOrder[i] = c

\* c.isupper(), c.islower(), c.isalpha()
isupper(c) == Ord("A") <= Ord(c) /\ Ord(c) <= Ord("Z")

islower(c) == Ord("a") <= Ord(c) /\ Ord(c) <= Ord("z")

isalpha(c) == isupper(c) \/ islower(c)

\* a < b on str
RECURSIVE StrLess(_, _)
StrLess(a, b) ==
  IF b = <<>> THEN FALSE
  ELSE IF a = <<>> THEN TRUE
  ELSE IF Head(a) # Head(b) THEN Ord(Head(a)) < Ord(Head(b))
  ELSE StrLess(Tail(a), Tail(b))

\* sorted(S) for a finite set of str
RECURSIVE SortedStrs(_)
SortedStrs(S) ==
  IF S = {} THEN <<>>
  ELSE LET x == CHOOSE y \in S : \A z \in S : z = y \/ StrLess(y, z)
       IN <<x>> \o SortedStrs(S \ {x})

README_MD == <<"R", "E", "A", "D", "M", "E", ".", "m", "d">>

A_PY == <<"a", ".", "p", "y">>

B_PY == <<"b", ".", "p", "y">>

C_PY == <<"c", ".", "p", "y">>

RepoFiles == {README_MD, A_PY, B_PY, C_PY}

\* The place of a file among the sorted files of the repository.
FileIndex(f) == CHOOSE i \in 1..Cardinality(RepoFiles) : SortedStrs(RepoFiles)[i] = f

Alpha == <<"A", "l", "p", "h", "a">>

get_user_name == <<"g", "e", "t", "_", "u", "s", "e", "r", "_", "n", "a", "m", "e">>

util == <<"u", "t", "i", "l">>

hid == <<"_", "h", "i", "d">>

self_ == <<"s", "e", "l", "f">>

\* The three repositories the files are taken from: "cross" has tags queries
\* that capture references, "backfill" has queries that capture definitions
\* only, "norefs" is "backfill" with no lexer for the files.
Corpora == {"cross", "backfill", "norefs"}

\* What can be wrong with a file.
FaultKinds ==
  {"notfile", "readerr", "empty", "nolang", "loaderr", "noquery", "queryerr"}

NoFault == [file |-> <<>>, kind |-> "none"]

\* nx.pagerank is a library call: its first call, or its first two calls, may
\* raise ZeroDivisionError.
PageRankFaults == {[file |-> <<>>, kind |-> k] : k \in {"pagerank1", "pagerank2"}}

FileFaults == {[file |-> f, kind |-> k] : f \in {A_PY, B_PY}, k \in FaultKinds}

Faults == {NoFault} \cup FileFaults \cup PageRankFaults

\* The repositories a fault is met in: a file is at fault in the repository
\* with cross references, nx.pagerank fails in any.
FaultCorpora(fault) == IF fault \in FileFaults THEN {"cross"} ELSE Corpora

\* How many calls of nx.pagerank raise under a fault.
PageRankFailures(fault) ==
  CASE fault.kind = "pagerank1" -> 1
    [] fault.kind = "pagerank2" -> 2
    [] OTHER -> 0

\* a.py: class Alpha with a method, a blank line, a private function.
APyContent == MkText("a.py", <<12, 26, 21, 0, 11, 16>>, TRUE)

\* b.py: util defined twice, the second time on a line of more than 100 characters.
BPyContent == MkText("b.py", <<12, 17, 0, 104, 32>>, TRUE)

CPyContent == MkText("c.py", <<8, 9>>, FALSE)

ReadmeContent == MkText("README.md", <<6, 0, 20>>, TRUE)

\* The captures of the default tags query.
TagsCaptures(f, corpus) ==
  LET caps ==
        CASE f = A_PY ->
               <<Capture("name.definition", Alpha, 0),
                 Capture("name.definition", get_user_name, 1),
                 Capture("name.reference", util, 2),
                 Capture("name.definition", hid, 4),
                 Capture("name.reference", Alpha, 5)>>
          [] f = B_PY ->
               <<Capture("name.definition", util, 0),
                 Capture("name.reference", Alpha, 1),
                 Capture("name.definition", util, 3),
                 Capture("name.reference", Alpha, 4),
                 Capture("name.reference", get_user_name, 4)>>
          [] f = C_PY -> <<Capture("name.reference", Alpha, 1)>>
          [] OTHER -> <<>>
  IN IF corpus = "cross" THEN caps
     ELSE SelectSeq(caps, LAMBDA c : c.tag = "name.definition")

\* The identifier tokens the lexer finds in a file.
LexerTokens(f) ==
  CASE f = A_PY -> <<Alpha, get_user_name, self_, util, self_, hid, Alpha>>
    [] f = B_PY -> <<util, Alpha, util, Alpha, get_user_name>>
    [] f = C_PY -> <<Alpha>>
    [] OTHER -> <<>>

\* The lines that open the scopes enclosing each line of a file.
ParentScopes(f) ==
  CASE f = A_PY -> <<{}, {0}, {0, 1}, {}, {}, {4}>>
    [] f = B_PY -> <<{}, {0}, {}, {}, {3}>>
    [] OTHER -> <<{}, {}, {}>>

\* os.path.getmtime(fname) of the untouched files.
MTIME == 1

\* _get_mtime(fname) of a file that is not there: None.
MTIME_NONE == 0

\* A file of a repository as the engine finds it.
RepoFile(f, corpus, fault) ==
  LET k == IF fault.file = f THEN fault.kind ELSE "ok"
      py == f \in {A_PY, B_PY, C_PY}
      content == CASE f = A_PY -> APyContent
                   [] f = B_PY -> BPyContent
                   [] f = C_PY -> CPyContent
                   [] OTHER -> ReadmeContent
  IN [path |-> f,
      mtime |-> MTIME,
      is_file |-> k # "notfile",
      read_ok |-> k \notin {"notfile", "readerr"},
      content |-> IF k = "empty" THEN EmptyText ELSE content,
      lang |-> py /\ k # "nolang",
      loadable |-> py /\ k # "loaderr",
      query_ok |-> k # "queryerr",
      scm |-> IF py /\ k # "noquery" THEN {"tags"} ELSE {},
      captures |-> [q \in {"tags", "structure", "interface"} |->
                      IF q = "tags" THEN TagsCaptures(f, corpus) ELSE <<>>],
      lexer_ok |-> corpus # "norefs",
      tokens |-> LexerTokens(f)]

\* The order in which a set is iterated: fixed by the hash seed of the
\* process, here ascending or descending.
HashSeeds == {0, 1}

\* The iteration order of a set of str under a hash seed.
IterStrs(S, seed) == IF seed = 0 THEN SortedStrs(S) ELSE Reverse(SortedStrs(S))

\* RepoMap._get_tags(fname, rel_fname): [raised, tags].
get_tags(fd) ==
  IF ~fd.read_ok THEN [raised |-> FALSE, tags |-> <<>>]
  ELSE IF TextLen(fd.content) = 0 THEN [raised |-> FALSE, tags |-> <<>>]
  ELSE get_tags_from_code(fd, fd.path, NoLevel)

NoScan ==
  [raised |-> FALSE, warned |-> {}, tags |-> <<>>, opened |-> {}, checked |-> {}]

\* The loop of _get_ranked_tags over the files in the order of their sorted
\* names: the tags of all files in order, the warned files, and the files
\* looked at and opened.
RECURSIVE ScanFds(_, _)
ScanFds(fds, acc) ==
  IF fds = <<>> \/ acc.raised THEN acc
  ELSE LET fd == Head(fds)
           seen == [acc EXCEPT !.checked = @ \cup {fd.path}]
           got == get_tags(fd)
       IN IF ~fd.is_file
          THEN ScanFds(Tail(fds), [seen EXCEPT !.warned = @ \cup {fd.path}])
          ELSE ScanFds(Tail(fds), [seen EXCEPT !.opened = @ \cup {fd.path},
                                               !.raised = got.raised,
                                               !.tags = @ \o got.tags])

\* The loop over the files of a repository.
ScanFiles(fnames, corpus, fault, acc) ==
  ScanFds([i \in 1..Len(fnames) |-> RepoFile(fnames[i], corpus, fault)], acc)

\* defines[name], as the set of files that define name.
Definers(tags, name) ==
  {tags[i].rel_fname : i \in {j \in 1..Len(tags) :
                                tags[j].kind = "def" /\ tags[j].name = name}}

DefinedNames(tags) == {tags[i].name : i \in {j \in 1..Len(tags) : tags[j].kind = "def"}}

\* The keys of references gathered by the loop.
ReferencedNames(tags) ==
  {tags[i].name : i \in {j \in 1..Len(tags) : tags[j].kind = "ref"}}

\* Counter(references[name])[rel_fname]; when the loop found no reference at
\* all, references is rebuilt from defines, one entry per definer.
NumRefs(tags, name, rel_fname) ==
  IF ReferencedNames(tags) = {}
  THEN IF rel_fname \in Definers(tags, name) THEN 1 ELSE 0
  ELSE Cardinality({j \in 1..Len(tags) :
                      /\ tags[j].kind = "ref"
                      /\ tags[j].name = name
                      /\ tags[j].rel_fname = rel_fname})

\* set(references.keys())
RefKeys(tags) ==
  IF ReferencedNames(tags) = {} THEN DefinedNames(tags) ELSE ReferencedNames(tags)

\* definitions[(rel_fname, name)]
Definitions(tags, rel_fname, name) ==
  {tags[i] : i \in {j \in 1..Len(tags) :
                      /\ tags[j].kind = "def"
                      /\ tags[j].rel_fname = rel_fname
                      /\ tags[j].name = name}}

\* floor(sqrt(n))
Isqrt(n) == CHOOSE r \in 0..n : r * r <= n /\ (r + 1) * (r + 1) > n

\* Edge weights are kept in hundredths.
SELF_EDGE_WEIGHT == 10

\* mul with the adjustments as alternatives: the first that applies is the
\* only one made.
Mul_Alternatives(ident, num_definers) ==
  LET has(c) == \E i \in 1..Len(ident) : ident[i] = c
      alpha == \E i \in 1..Len(ident) : isalpha(ident[i])
      camel == (\E i \in 1..Len(ident) : isupper(ident[i]))
                 /\ (\E i \in 1..Len(ident) : islower(ident[i]))
  IN IF ((has("_") /\ alpha) \/ (has("-") /\ alpha) \/ camel) /\ Len(ident) >= 8
     THEN 1000
     ELSE IF ident # <<>> /\ ident[1] = "_" THEN 10
     ELSE IF num_definers > 5 THEN 10
     ELSE 100

\* mul of an identifier, in hundredths.
Mul(ident, num_definers) ==
  LET is_snake == (\E i \in 1..Len(ident) : ident[i] = "_")
                    /\ (\E i \in 1..Len(ident) : isalpha(ident[i]))
      is_kebab == (\E i \in 1..Len(ident) : ident[i] = "-")
                    /\ (\E i \in 1..Len(ident) : isalpha(ident[i]))
      is_camel == (\E i \in 1..Len(ident) : isupper(ident[i]))
                    /\ (\E i \in 1..Len(ident) : islower(ident[i]))
      m1 == IF (is_snake \/ is_kebab \/ is_camel) /\ Len(ident) >= 8
            THEN 1000 ELSE 100
      m2 == IF ident # <<>> /\ ident[1] = "_" THEN m1 \div 10 ELSE m1
  IN IF num_definers > 5 THEN m2 \div 10 ELSE m2

\* weight = mul * math.sqrt(num_refs), in hundredths.
EdgeWeight(ident, num_definers, num_refs) ==
  LET m == Mul(ident, num_definers) IN Isqrt(m * m * num_refs)

\* The edges of G: the self edges of the names nobody references, then one
\* edge per name, referencer and definer.
GraphEdges(tags) ==
  LET files == {tags[i].rel_fname : i \in 1..Len(tags)}
  IN {[src |-> f, dst |-> f, weight |-> SELF_EDGE_WEIGHT, ident |-> n] :
        <<n, f>> \in {<<n, f>> \in DefinedNames(tags) \X files :
                        n \notin RefKeys(tags) /\ f \in Definers(tags, n)}}
     \cup
     {[src |-> x[2], dst |-> x[3],
       weight |-> EdgeWeight(x[1], Cardinality(Definers(tags, x[1])),
                             NumRefs(tags, x[1], x[2])),
       ident |-> x[1]] :
        x \in {y \in (DefinedNames(tags) \cap RefKeys(tags)) \X files \X files :
                 NumRefs(tags, y[1], y[2]) > 0 /\ y[3] \in Definers(tags, y[1])}}

GraphNodes(edges) == {e.src : e \in edges} \cup {e.dst : e \in edges}

\* The sum of val[x] over the finite set S.
RECURSIVE SumOver(_, _)
SumOver(S, val) ==
  IF S = {} THEN 0
  ELSE LET x == CHOOSE y \in S : TRUE
       IN val[x] + SumOver(S \ {x}, val)

\* The total weight of the edges from u to v, and of all edges out of u.
PairWeight(edges, u, v) ==
  LET E == {e \in edges : e.src = u /\ e.dst = v}
  IN SumOver(E, [e \in E |-> e.weight])

OutWeight(edges, u) ==
  LET E == {e \in edges : e.src = u}
  IN SumOver(E, [e \in E |-> e.weight])

\* Ranks are fixed-point numbers: RANK_ONE stands for 1.0.
RANK_ONE == 100000

\* The power iterations made (networkx stops on convergence).
PAGERANK_ITERATIONS == 20

\* One power iteration of nx.pagerank(G, weight="weight"): damping 0.85,
\* rows normalised by the out weight, nodes without out edges spread evenly.
PageRankStep(edges, x) ==
  LET nodes == DOMAIN x
      n == Cardinality(nodes)
      dangling == {u \in nodes : OutWeight(edges, u) = 0}
      danglesum == SumOver(dangling, [u \in dangling |-> x[u]])
      flow(v) ==
        LET srcs == {u \in nodes : PairWeight(edges, u, v) > 0}
        IN SumOver(srcs, [u \in srcs |->
                            (x[u] * PairWeight(edges, u, v)) \div OutWeight(edges, u)])
  IN [v \in nodes |->
        (85 * (flow(v) + danglesum \div n)) \div 100 + (15 * RANK_ONE) \div (100 * n)]

RECURSIVE PageRankIter(_, _, _)
PageRankIter(edges, x, k) ==
  IF k = 0 THEN x ELSE PageRankIter(edges, PageRankStep(edges, x), k - 1)

\* nx.pagerank(G, weight="weight"): node -> rank; {} for the empty graph.
pagerank(edges) ==
  LET nodes == GraphNodes(edges)
  IN IF nodes = {} THEN <<>>
     ELSE PageRankIter(edges, [v \in nodes |-> RANK_ONE \div Cardinality(nodes)],
                       PAGERANK_ITERATIONS)

\* try: nx.pagerank(...) except ZeroDivisionError: try: nx.pagerank(...)
\* without the second try.
PageRankCalls_NoRetry(failures) == 1

\* The calls of nx.pagerank made when the first failures calls raise.
PageRankCalls(failures) == IF failures = 0 THEN 1 ELSE 2

\* The second call raised too: return []
PageRankGivesUp(failures) == failures >= PageRankCalls(failures)

\* ranked_definitions[(dst, ident)]: the rank each source node hands over
\* its out edges, in proportion to their weights.
RankedDefinition(edges, ranked, dst, ident) ==
  LET E == {e \in edges : e.dst = dst /\ e.ident = ident /\ OutWeight(edges, e.src) # 0}
  IN SumOver(E, [e \in E |-> (ranked[e.src] * e.weight) \div OutWeight(edges, e.src)])

\* sorted(ranked_definitions.items(), reverse=True, key=lambda x: (x[1], x[0])):
\* the keys [rank, fname, ident], largest first.
RECURSIVE SortedDefinitions(_)
SortedDefinitions(S) ==
  IF S = {} THEN <<>>
  ELSE LET Less(a, b) ==
             \/ a.rank < b.rank
             \/ a.rank = b.rank /\ StrLess(a.fname, b.fname)
             \/ a.rank = b.rank /\ a.fname = b.fname /\ StrLess(a.ident, b.ident)
           m == CHOOSE a \in S : \A b \in S : b = a \/ Less(b, a)
       IN <<m>> \o SortedDefinitions(S \ {m})

\* sorted([(rank, node) ...], reverse=True)
RECURSIVE TopRank(_, _)
TopRank(nodes, ranked) ==
  IF nodes = {} THEN <<>>
  ELSE LET Less(a, b) == \/ ranked[a] < ranked[b]
                         \/ ranked[a] = ranked[b] /\ StrLess(a, b)
           m == CHOOSE a \in nodes : \A b \in nodes : b = a \/ Less(b, a)
       IN <<m>> \o TopRank(nodes \ {m}, ranked)

\* list(definitions[key]): the tags of one definition, in the iteration order
\* of their set.
IterTags(S, seed) ==
  LET lines == {t.line : t \in S}
      asc == SortBy(lines, [l \in lines |-> l])
      order == IF seed = 0 THEN asc ELSE Reverse(asc)
  IN [i \in 1..Len(order) |-> CHOOSE t \in S : t.line = order[i]]

\* The entry (fname,) of a file without tags.
FileEntry(fname) == [rel_fname |-> fname, line |-> -1, name |-> <<>>, kind |-> "file"]

RECURSIVE Flatten(_)
Flatten(ss) == IF ss = <<>> THEN <<>> ELSE Head(ss) \o Flatten(Tail(ss))

\* The list _get_ranked_tags returns once the files are scanned, the graph
\* with the given edges built and ranked: the tags of the ranked definitions,
\* then the graph's files without a ranked tag in rank order, then the files
\* that are not in the graph.
RankedTags(tags, edges, ranked, fnames, seed) ==
  LET nodes == GraphNodes(edges)
      keys == {[rank |-> RankedDefinition(edges, ranked, e.dst, e.ident),
                fname |-> e.dst, ident |-> e.ident] : e \in edges}
      sorted_definitions == SortedDefinitions(keys)
      ranked_tags ==
        Flatten([i \in 1..Len(sorted_definitions) |->
                   IterTags(Definitions(tags, sorted_definitions[i].fname,
                                        sorted_definitions[i].ident), seed)])
      fnames_already_included == {ranked_tags[i].rel_fname : i \in 1..Len(ranked_tags)}
      top_rank == SelectSeq(TopRank(nodes, ranked),
                            LAMBDA f : f \notin fnames_already_included)
      rest == IterStrs(fnames \ nodes, seed)
  IN ranked_tags
       \o [i \in 1..Len(top_rank) |-> FileEntry(top_rank[i])]
       \o [i \in 1..Len(rest) |-> FileEntry(rest[i])]

\* special.is_important(file_path), for a path without directories.
ROOT_IMPORTANT_FILES == {README_MD}

is_important(file_path) == file_path \in ROOT_IMPORTANT_FILES

\* The special files put first whether the ranked list holds them or not.
SpecialEntries_Unfiltered(ranked_tags, fnames) ==
  LET special == SelectSeq(SortedStrs(fnames), is_important)
  IN [i \in 1..Len(special) |-> FileEntry(special[i])]

\* get_repo_map: the special files that are not in the ranked list, put first.
SpecialEntries(ranked_tags, fnames) ==
  LET ranked_tags_fnames == {ranked_tags[i].rel_fname : i \in 1..Len(ranked_tags)}
      special == SelectSeq(SortedStrs(fnames),
                           LAMBDA f : is_important(f) /\ f \notin ranked_tags_fnames)
  IN [i \in 1..Len(special) |-> FileEntry(special[i])]

\* The length of the line TreeContext.format() writes for a run of hidden lines.
GAP_MARKER_LEN == 4

\* _to_tree: line[:100]
MAX_LINE_LEN == 100

\* TreeContext.add_context(): the lines of interest, the lines opening their
\* enclosing scopes, one-line gaps closed and blank lines after shown lines.
ShowLines(code, parents, lines_of_interest) ==
  LET n == Len(code.lines)
      lois == {l \in lines_of_interest : 0 <= l /\ l < n}
      scoped == lois \cup UNION {parents[l + 1] : l \in lois}
      closed == scoped \cup {l \in 0..(n - 1) : (l - 1) \in scoped /\ (l + 1) \in scoped}
  IN closed \cup {l \in 1..(n - 1) :
                    /\ (l - 1) \in closed
                    /\ code.lines[l].len > 0
                    /\ code.lines[l + 1].len = 0}

\* TreeContext.format(): every shown line behind a one-character spacer, one
\* marker line per run of hidden lines.
RECURSIVE FormatLines(_, _, _, _)
FormatLines(code, show, i, dots) ==
  IF i >= Len(code.lines) THEN <<>>
  ELSE IF i \in show
       THEN <<[src |-> code.lines[i + 1].src, idx |-> i,
               len |-> code.lines[i + 1].len + 1]>>
              \o FormatLines(code, show, i + 1, TRUE)
       ELSE (IF dots THEN <<[src |-> "gap", idx |-> i, len |-> GAP_MARKER_LEN]>>
                     ELSE <<>>)
              \o FormatLines(code, show, i + 1, FALSE)

\* The lines of interest kept by a TreeContext that is not reset.
KeepLinesOfInterest(lines_of_interest) == lines_of_interest

\* _render_tree: context.lines_of_interest = set()
ResetLinesOfInterest(lines_of_interest) == {}

\* sorted(lois)
RECURSIVE SortedInts(_)
SortedInts(s) ==
  IF s = <<>> THEN <<>>
  ELSE LET i == CHOOSE j \in 1..Len(s) : \A k \in 1..Len(s) : s[j] <= s[k]
       IN <<s[i]>> \o SortedInts([k \in 1..(Len(s) - 1) |-> IF k < i THEN s[k] ELSE s[k + 1]])

\* A cache key that leaves the modification time out.
TreeKey_WithoutMtime(rel_fname, lois, mtime) ==
  [rel_fname |-> rel_fname, lois |-> SortedInts(lois), mtime |-> MTIME]

\* key = (rel_fname, tuple(sorted(lois)), mtime)
TreeKey(rel_fname, lois, mtime) ==
  [rel_fname |-> rel_fname, lois |-> SortedInts(lois), mtime |-> mtime]

\* _render_tree(abs_fname, rel_fname, lois) on the caches c = [tree, context]:
\* the rendered lines and the caches afterwards.
render_tree(c, fd, lois) ==
  LET rel_fname == fd.path
      mtime == fd.mtime
      key == TreeKey(rel_fname, lois, mtime)
      hit == {e \in c.tree : e.key = key}
      stale == \/ rel_fname \notin DOMAIN c.context
               \/ c.context[rel_fname].mtime # mtime
      code == IF fd.read_ok /\ TextLen(fd.content) > 0
              THEN [fd.content EXCEPT !.nl = TRUE]
              ELSE [lines |-> <<[src |-> "", idx |-> 0, len |-> 0]>>, nl |-> TRUE]
      context == IF stale THEN [code |-> code, lines_of_interest |-> {}]
                 ELSE c.context[rel_fname].context
      lines_of_interest == ResetLinesOfInterest(context.lines_of_interest) \cup Range(lois)
      res == FormatLines(context.code,
                         ShowLines(context.code, ParentScopes(rel_fname), lines_of_interest),
                         0, 0 \notin ShowLines(context.code, ParentScopes(rel_fname),
                                               lines_of_interest))
      entry == [mtime |-> mtime,
                context |-> [context EXCEPT !.lines_of_interest = lines_of_interest]]
  IN IF hit # {}
     THEN [res |-> (CHOOSE e \in hit : TRUE).res, tree |-> c.tree,
           context |-> c.context, built |-> 0]
     ELSE [res |-> res,
           tree |-> c.tree \cup {[key |-> key, res |-> res]},
           context |-> [f \in DOMAIN c.context \cup {rel_fname} |->
                          IF f = rel_fname THEN entry ELSE c.context[f]],
           built |-> 1]

\* sorted(tags) of one file's Tag entries, as their line numbers.
RECURSIVE SortedLois(_)
SortedLois(S) ==
  IF S = {} THEN <<>>
  ELSE LET t == CHOOSE a \in S : \A b \in S :
                  \/ b = a
                  \/ a.line < b.line
                  \/ a.line = b.line /\ StrLess(a.name, b.name)
       IN <<t.line>> \o SortedLois(S \ {t})

\* The loop of _to_tree over the sorted entries, one file at a time: a file
\* listed as (fname,) is written as its name, a file with tags as its name,
\* a colon and its excerpt.
RECURSIVE TreeBlocks(_, _, _, _, _)
TreeBlocks(files, entries, corpus, fault, acc) ==
  IF files = <<>> THEN acc
  ELSE LET f == Head(files)
           mine == {entries[i] : i \in {j \in 1..Len(entries) : entries[j].rel_fname = f}}
           bare == \E t \in mine : t.kind = "file"
           header(n) == <<[src |-> "", idx |-> 0, len |-> 0],
                          [src |-> "name", idx |-> FileIndex(f), len |-> Len(f) + n]>>
           r == render_tree([tree |-> acc.tree, context |-> acc.context],
                            RepoFile(f, corpus, fault), SortedLois(mine))
       IN IF bare
          THEN TreeBlocks(Tail(files), entries, corpus, fault,
                          [acc EXCEPT !.lines = @ \o header(0)])
          ELSE TreeBlocks(Tail(files), entries, corpus, fault,
                          [lines |-> acc.lines \o header(1) \o r.res,
                           tree |-> r.tree, context |-> r.context,
                           built |-> acc.built + r.built])

\* _to_tree(tags) on the caches c: [text, tree, context, built].
to_tree(c, entries, corpus, fault) ==
  LET files == SortedStrs({entries[i].rel_fname : i \in 1..Len(entries)})
      out == TreeBlocks(files, entries, corpus, fault,
                        [lines |-> <<>>, tree |-> c.tree, context |-> c.context,
                         built |-> 0])
  IN IF entries = <<>>
     THEN [text |-> EmptyText, tree |-> c.tree, context |-> c.context, built |-> 0]
     ELSE [text |-> [lines |-> [i \in 1..Len(out.lines) |->
                                  [out.lines[i] EXCEPT !.len = Min(@, MAX_LINE_LEN)]],
                     nl |-> TRUE],
           tree |-> out.tree, context |-> out.context, built |-> out.built]

\* The calls made on one engine.
MaxCalls == 2

RepoBudgets == {-1, 0, 1, 6, 7, 13, 40, 60}

\* The early return that lets a budget of 0 through.
EarlyReturn_NegativeOnly(max_map_tokens, fnames) == max_map_tokens < 0 \/ fnames = {}

\* get_repo_map: if self.max_map_tokens <= 0 ... if not fnames: return None
EarlyReturn(max_map_tokens, fnames) == max_map_tokens <= 0 \/ fnames = {}

\* A tolerance of 30%.
WithinTolerance_Wide(num_tokens, max_map_tokens) ==
  100 * Abs(num_tokens - max_map_tokens) < 30 * max_map_tokens

\* pct_err < ok_err, with pct_err = abs(num_tokens - max_map_tokens) /
\* max_map_tokens (0 for a budget of 0) and ok_err = 0.15.
WithinTolerance(num_tokens, max_map_tokens) ==
  IF max_map_tokens # 0
  THEN 100 * Abs(num_tokens - max_map_tokens) < 15 * max_map_tokens
  ELSE TRUE

\* is_better without the comparison to the budget.
IsBetter_AnySize(num_tokens, max_map_tokens, best_tree_tokens) ==
  num_tokens > best_tree_tokens

\* is_better
IsBetter(num_tokens, max_map_tokens, best_tree_tokens) ==
  num_tokens <= max_map_tokens /\ num_tokens > best_tree_tokens

\* The first probe taken at the middle of the list.
InitialMiddle_Halfway(max_map_tokens, num_tags) == num_tags \div 2

\* middle = min(int(max_map_tokens // 25), num_tags)
InitialMiddle(max_map_tokens, num_tags) == Min(max_map_tokens \div 25, num_tags)

\* A search that only ever lowers its upper bound.
GrowLowerBound_Never(num_tokens, max_map_tokens) == FALSE

\* if num_tokens < max_map_tokens: lower_bound = middle + 1
GrowLowerBound(num_tokens, max_map_tokens) == num_tokens < max_map_tokens

\* An upper bound that keeps the probed length.
ShrunkUpperBound_KeepsMiddle(middle) == middle

\* else: upper_bound = middle - 1
ShrunkUpperBound(middle) == middle - 1

NoTree == [some |-> FALSE, text |-> EmptyText]

NoEffects ==
  [checked |-> {}, opened |-> {}, ranked |-> FALSE, pagerank_calls |-> 0, built |-> 0]

InitRepoMap ==
  /\ rm_max_map_tokens \in RepoBudgets
  /\ rm_fnames \in SUBSET RepoFiles
  /\ rm_fault \in Faults
  /\ rm_corpus \in FaultCorpora(rm_fault)
  /\ rm_hashseed \in HashSeeds
  /\ rm_tree_cache = {}
  /\ rm_tree_context_cache = <<>>
  /\ rm_warned_files = {}
  /\ rm_ranked_tags = <<>>
  /\ rm_lower_bound = 0
  /\ rm_upper_bound = 0
  /\ rm_middle = 0
  /\ rm_best_tree = NoTree
  /\ rm_best_tree_tokens = 0
  /\ rm_probes = <<>>
  /\ rm_effects = NoEffects
  /\ rm_results = <<>>
  /\ rm_pc = "ready"

IdleRepoMap ==
  /\ rm_max_map_tokens = 0
  /\ rm_fnames = {}
  /\ rm_corpus = "cross"
  /\ rm_fault = NoFault
  /\ rm_hashseed = 0
  /\ rm_tree_cache = {}
  /\ rm_tree_context_cache = <<>>
  /\ rm_warned_files = {}
  /\ rm_ranked_tags = <<>>
  /\ rm_lower_bound = 0
  /\ rm_upper_bound = 0
  /\ rm_middle = 0
  /\ rm_best_tree = NoTree
  /\ rm_best_tree_tokens = 0
  /\ rm_probes = <<>>
  /\ rm_effects = NoEffects
  /\ rm_results = <<>>
  /\ rm_pc = "idle"

\* get_repo_map(fnames) up to its search loop: the early returns, then
\* _get_ranked_tags, the special files and the start of the binary search.
GetRepoMap ==
  /\ rm_pc \in {"ready", "returned", "raised"}
  /\ Len(rm_results) < MaxCalls
  /\ IF EarlyReturn(rm_max_map_tokens, rm_fnames)
     THEN /\ rm_results' = Append(rm_results, [raised |-> FALSE, tree |-> NoTree])
          /\ rm_pc' = "returned"
          /\ rm_effects' = NoEffects
          /\ rm_probes' = <<>>
          /\ UNCHANGED <<rm_tree_cache, rm_tree_context_cache, rm_warned_files,
                         rm_ranked_tags, rm_lower_bound, rm_upper_bound, rm_middle,
                         rm_best_tree, rm_best_tree_tokens>>
     ELSE \E scan \in {ScanFiles(SortedStrs(rm_fnames), rm_corpus, rm_fault,
                                 [NoScan EXCEPT !.warned = rm_warned_files])} :
            IF scan.raised
            THEN /\ rm_results' = Append(rm_results, [raised |-> TRUE, tree |-> NoTree])
                 /\ rm_pc' = "raised"
                 /\ rm_warned_files' = scan.warned
                 /\ rm_effects' = [checked |-> scan.checked, opened |-> scan.opened,
                                   ranked |-> FALSE, pagerank_calls |-> 0,
                                   built |-> 0]
                 /\ rm_probes' = <<>>
                 /\ UNCHANGED <<rm_tree_cache, rm_tree_context_cache,
                                rm_ranked_tags, rm_lower_bound, rm_upper_bound,
                                rm_middle, rm_best_tree, rm_best_tree_tokens>>
            ELSE \E edges \in {GraphEdges(scan.tags)} :
                 \E failures \in {PageRankFailures(rm_fault)} :
                 \E ranked \in {IF PageRankGivesUp(failures) THEN <<>>
                                 ELSE pagerank(edges)} :
                 \E rt \in {IF PageRankGivesUp(failures) THEN <<>>
                             ELSE RankedTags(scan.tags, edges, ranked, rm_fnames,
                                             rm_hashseed)} :
                 \E ranked_tags \in {SpecialEntries(rt, rm_fnames) \o rt} :
                   /\ rm_ranked_tags' = ranked_tags
                   /\ rm_lower_bound' = 0
                   /\ rm_upper_bound' = Len(ranked_tags)
                   /\ rm_best_tree' = NoTree
                   /\ rm_best_tree_tokens' = 0
                   /\ rm_tree_cache' = {}
                   /\ rm_middle' = InitialMiddle(rm_max_map_tokens, Len(ranked_tags))
                   /\ rm_warned_files' = scan.warned
                   /\ rm_effects' = [checked |-> scan.checked, opened |-> scan.opened,
                                     ranked |-> TRUE,
                                     pagerank_calls |-> PageRankCalls(failures),
                                     built |-> 0]
                   /\ rm_probes' = <<>>
                   /\ rm_pc' = "search"
                   /\ UNCHANGED <<rm_tree_context_cache, rm_results>>
  /\ UNCHANGED <<rm_max_map_tokens, rm_fnames, rm_corpus, rm_fault, rm_hashseed,
                 cmVars, fpVars, rdVars, rkVars, tcVars, nvVars>>

\* One iteration of get_repo_map's while loop.
Probe ==
  /\ rm_pc = "search"
  /\ rm_lower_bound <= rm_upper_bound
  /\ \E t \in {to_tree([tree |-> rm_tree_cache, context |-> rm_tree_context_cache],
                       SubSeq(rm_ranked_tags, 1, rm_middle), rm_corpus, rm_fault)} :
     \E num_tokens \in {estimate_tokens(TextLen(t.text))} :
       LET ok == WithinTolerance(num_tokens, rm_max_map_tokens)
           keep == IsBetter(num_tokens, rm_max_map_tokens, rm_best_tree_tokens) \/ ok
           lower_bound == IF GrowLowerBound(num_tokens, rm_max_map_tokens)
                          THEN rm_middle + 1 ELSE rm_lower_bound
           upper_bound == IF GrowLowerBound(num_tokens, rm_max_map_tokens)
                          THEN rm_upper_bound ELSE ShrunkUpperBound(rm_middle)
       IN /\ rm_tree_cache' = t.tree
          /\ rm_tree_context_cache' = t.context
          /\ rm_best_tree' = IF keep THEN [some |-> TRUE, text |-> t.text]
                             ELSE rm_best_tree
          /\ rm_best_tree_tokens' = IF keep THEN num_tokens ELSE rm_best_tree_tokens
          /\ rm_probes' = Append(rm_probes, [middle |-> rm_middle,
                                             num_tokens |-> num_tokens, kept |-> keep])
          /\ rm_effects' = [rm_effects EXCEPT !.built = @ + t.built]
          /\ IF ok
             THEN /\ rm_pc' = "break"
                  /\ UNCHANGED <<rm_lower_bound, rm_upper_bound, rm_middle>>
             ELSE /\ rm_pc' = "search"
                  /\ rm_lower_bound' = lower_bound
                  /\ rm_upper_bound' = upper_bound
                  /\ rm_middle' = (lower_bound + upper_bound) \div 2
  /\ UNCHANGED <<rm_max_map_tokens, rm_fnames, rm_corpus, rm_fault, rm_hashseed,
                 rm_warned_files, rm_ranked_tags, rm_results, cmVars, fpVars, rdVars, rkVars, tcVars, nvVars>>

\* get_repo_map leaves the loop and returns best_tree.
Return ==
  /\ \/ rm_pc = "break"
     \/ rm_pc = "search" /\ rm_lower_bound > rm_upper_bound
  /\ rm_results' = Append(rm_results, [raised |-> FALSE, tree |-> rm_best_tree])
  /\ rm_pc' = "returned"
  /\ UNCHANGED <<rm_max_map_tokens, rm_fnames, rm_corpus, rm_fault, rm_hashseed,
                 rm_tree_cache, rm_tree_context_cache, rm_warned_files,
                 rm_ranked_tags, rm_lower_bound, rm_upper_bound, rm_middle,
                 rm_best_tree, rm_best_tree_tokens, rm_probes, rm_effects,
                 cmVars, fpVars, rdVars, rkVars, tcVars, nvVars>>

-----------------------------------------------------------------------------
(***************************************************************************)
(* Tag ranking (RepoMap._get_ranked_tags) on its own: the files are drawn  *)
(* from two families of small repositories, the call is one step.          *)
(***************************************************************************)

PyFile(c) == <<c, ".", "p", "y">>

AUTH_PY == <<"a", "u", "t", "h", ".", "p", "y">>

MAIN_PY == <<"m", "a", "i", "n", ".", "p", "y">>

UTIL_PY == <<"u", "t", "i", "l", ".", "p", "y">>

login == <<"l", "o", "g", "i", "n">>

helper == <<"h", "e", "l", "p", "e", "r">>

\* A name that no file defines.
check == <<"c", "h", "e", "c", "k">>

get_id == <<"g", "e", "t", "_", "i", "d">>

get_name == <<"g", "e", "t", "-", "n", "a", "m", "e">>

UserAuth == <<"U", "s", "e", "r", "A", "u", "t", "h">>

get_user_ == <<"_", "g", "e", "t", "_", "u", "s", "e", "r">>

\* A python file that reads, parses and queries without a failure.
RankFd(path, caps, lexer_ok) ==
  [path |-> path, is_file |-> TRUE, read_ok |-> TRUE,
   content |-> MkText("code", <<20, 20>>, TRUE),
   lang |-> TRUE, loadable |-> TRUE, query_ok |-> TRUE, scm |-> {"tags"},
   captures |-> [q \in {"tags", "structure", "interface"} |->
                   IF q = "tags" THEN caps ELSE <<>>],
   lexer_ok |-> lexer_ok,
   tokens |-> [i \in 1..Len(caps) |-> caps[i].text]]

UtilKinds == {"plain", "def", "defcall"}

\* auth.py defines login, main.py calls login twice, util.py has nothing to
\* do with either: it holds no definition, or defines helper, which nobody
\* calls.  auth.py and util.py may call a function defined elsewhere.
ScenarioRepo(auth_calls, util_kind, lexer_ok) ==
  LET call == <<Capture("name.reference", check, 1)>>
  IN {RankFd(AUTH_PY, <<Capture("name.definition", login, 0)>>
                        \o (IF auth_calls THEN call ELSE <<>>), lexer_ok),
      RankFd(MAIN_PY, <<Capture("name.reference", login, 0),
                        Capture("name.reference", login, 1)>>, lexer_ok),
      RankFd(UTIL_PY, CASE util_kind = "plain" -> <<>>
                        [] util_kind = "def" ->
                             <<Capture("name.definition", helper, 0)>>
                        [] OTHER ->
                             <<Capture("name.definition", helper, 0)>> \o call,
             lexer_ok)}

ScenarioRepos ==
  {ScenarioRepo(a, u, l) : a \in BOOLEAN, u \in UtilKinds, l \in BOOLEAN}

\* The identifiers of the second family: plain, snake case, private, short
\* snake case, kebab case, camel case, private snake case.
RankIdents == {login, get_user_name, hid, get_id, get_name, UserAuth, get_user_}

DefinerLetters == <<"a", "b", "c", "d", "e", "f", "g", "h">>

\* The most files that define one identifier.
MaxDefiners == 6

\* The most references one file makes to one identifier.
MaxRefs == 4

RECURSIVE Repeat(_, _)
Repeat(x, n) == IF n = 0 THEN <<>> ELSE <<x>> \o Repeat(x, n - 1)

\* ndef files define ident, r.py refers to it nrefs times; the defining
\* files call a function defined elsewhere or call nothing.
WeightRepo(ident, ndef, nrefs, definers_call, lexer_ok) ==
  {RankFd(PyFile(DefinerLetters[i]),
          <<Capture("name.definition", ident, 0)>>
            \o (IF definers_call THEN <<Capture("name.reference", check, 1)>>
                ELSE <<>>),
          lexer_ok) : i \in 1..ndef}
  \cup (IF nrefs = 0 THEN {}
        ELSE {RankFd(PyFile("r"), Repeat(Capture("name.reference", ident, 2), nrefs),
                     lexer_ok)})

WeightRepos ==
  {WeightRepo(n, d, r, c, l) :
     n \in RankIdents, d \in {1, 2, MaxDefiners}, r \in {0, 1, 2, MaxRefs},
     c \in BOOLEAN, l \in BOOLEAN}

\* The files of a repository in the order of their names.
SortedFds(files) ==
  LET names == SortedStrs({fd.path : fd \in files})
  IN [i \in 1..Len(names) |-> CHOOSE fd \in files : fd.path = names[i]]

InitRank ==
  /\ rk_files \in ScenarioRepos \cup WeightRepos
  /\ rk_hashseed \in HashSeeds
  /\ rk_failures \in 0..2
  /\ rk_tags = <<>>
  /\ rk_edges = {}
  /\ rk_ranked = <<>>
  /\ rk_ranked_tags = <<>>
  /\ rk_pc = "ready"

IdleRank ==
  /\ rk_files = {}
  /\ rk_hashseed = 0
  /\ rk_failures = 0
  /\ rk_tags = <<>>
  /\ rk_edges = {}
  /\ rk_ranked = <<>>
  /\ rk_ranked_tags = <<>>
  /\ rk_pc = "idle"

\* _get_ranked_tags(fnames)
GetRankedTags ==
  /\ rk_pc = "ready"
  /\ \E scan \in {ScanFds(SortedFds(rk_files), NoScan)} :
     \E edges \in {GraphEdges(scan.tags)} :
     \E ranked \in {IF PageRankGivesUp(rk_failures) THEN <<>> ELSE pagerank(edges)} :
       /\ rk_tags' = scan.tags
       /\ rk_edges' = edges
       /\ rk_ranked' = ranked
       /\ rk_ranked_tags' =
            IF PageRankGivesUp(rk_failures) THEN <<>>
            ELSE RankedTags(scan.tags, edges, ranked,
                            {fd.path : fd \in rk_files}, rk_hashseed)
  /\ rk_pc' = "done"
  /\ UNCHANGED <<rk_files, rk_hashseed, rk_failures, cmVars, fpVars, rdVars, rmVars,
                 tcVars, nvVars>>

-----------------------------------------------------------------------------
(***************************************************************************)
(* The excerpt cache (RepoMap._render_tree) on its own: calls of           *)
(* _render_tree on one engine, between which the files are written to,     *)
(* removed, or a new get_repo_map run empties _tree_cache.                 *)
(***************************************************************************)

TcFiles == {A_PY, B_PY}

\* The file that other processes write to and remove.
TcWritten == {A_PY}

\* The modification times a file can have.
TcMtimes == {MTIME, MTIME + 1}

\* The lois of the requests: lists of line numbers, not always ascending.
TcLois == {<<1>>, <<4>>, <<1, 4>>, <<4, 1>>}

\* The calls of _render_tree made on one engine.
MaxRenders == 3

\* What a file holds: its text of the repository, or that text with its
\* second line made longer; nothing can be read of a removed file.
TcContent(f, edited) ==
  LET text == IF f = A_PY THEN APyContent ELSE BPyContent
  IN IF edited THEN [text EXCEPT !.lines[2].len = @ + 3] ELSE text

TcFd(f, file) ==
  [path |-> f,
   mtime |-> file.mtime,
   read_ok |-> file.mtime # MTIME_NONE,
   content |-> TcContent(f, file.edited)]

NoRequest ==
  [rel_fname |-> <<>>, lois |-> <<>>, mtime |-> MTIME_NONE, before |-> {},
   res |-> <<>>, built |-> 0]

InitTreeCache ==
  /\ tc_files = [f \in TcFiles |-> [mtime |-> MTIME, edited |-> FALSE]]
  /\ tc_tree_cache = {}
  /\ tc_tree_context_cache = <<>>
  /\ tc_last = NoRequest
  /\ tc_renders = 0
  /\ tc_pc = "run"

IdleTreeCache ==
  /\ tc_files = <<>>
  /\ tc_tree_cache = {}
  /\ tc_tree_context_cache = <<>>
  /\ tc_last = NoRequest
  /\ tc_renders = 0
  /\ tc_pc = "idle"

\* self._render_tree(abs_fname, rel_fname, lois)
RenderTree ==
  /\ tc_pc = "run"
  /\ tc_renders < MaxRenders
  /\ \E f \in TcFiles, lois \in TcLois :
     \E r \in {render_tree([tree |-> tc_tree_cache, context |-> tc_tree_context_cache],
                           TcFd(f, tc_files[f]), lois)} :
       /\ tc_tree_cache' = r.tree
       /\ tc_tree_context_cache' = r.context
       /\ tc_last' = [rel_fname |-> f, lois |-> lois, mtime |-> tc_files[f].mtime,
                      before |-> tc_tree_cache, res |-> r.res, built |-> r.built]
  /\ tc_renders' = tc_renders + 1
  /\ UNCHANGED <<tc_files, tc_pc, cmVars, fpVars, rdVars, rmVars, rkVars, nvVars>>

\* Another process writes a file: its text and its modification time change,
\* or only one of them.
WriteFile ==
  /\ tc_pc = "run"
  /\ \E f \in TcWritten, m \in TcMtimes, e \in BOOLEAN :
       /\ [mtime |-> m, edited |-> e] # tc_files[f]
       /\ tc_files' = [tc_files EXCEPT ![f] = [mtime |-> m, edited |-> e]]
  /\ UNCHANGED <<tc_tree_cache, tc_tree_context_cache, tc_last, tc_renders, tc_pc,
                 cmVars, fpVars, rdVars, rmVars, rkVars, nvVars>>

\* Another process removes a file.
RemoveFile ==
  /\ tc_pc = "run"
  /\ \E f \in TcWritten :
       /\ tc_files[f].mtime # MTIME_NONE
       /\ tc_files' = [tc_files EXCEPT ![f] = [mtime |-> MTIME_NONE, edited |-> FALSE]]
  /\ UNCHANGED <<tc_tree_cache, tc_tree_context_cache, tc_last, tc_renders, tc_pc,
                 cmVars, fpVars, rdVars, rmVars, rkVars, nvVars>>

\* get_repo_map: self._tree_cache = {} before the search of a new run.
NewRun ==
  /\ tc_pc = "run"
  /\ tc_tree_cache # {}
  /\ tc_tree_cache' = {}
  /\ tc_last' = NoRequest
  /\ UNCHANGED <<tc_files, tc_tree_context_cache, tc_renders, tc_pc,
                 cmVars, fpVars, rdVars, rmVars, rkVars, nvVars>>

-----------------------------------------------------------------------------
(***************************************************************************)
(* The navigator (repo_map/navigator): its state is at rest while the      *)
(* specifications of the core run.                                         *)
(***************************************************************************)

IdleBudget ==
  /\ pl_state = <<>>
  /\ pl_last_iteration_cost = 0
  /\ pl_last = <<>>
  /\ pl_calls = 0

IdleRunner ==
  /\ rn_max_iterations = 0
  /\ rn_session = <<>>
  /\ rn_state = <<>>
  /\ rn_iteration = 0
  /\ rn_final_response = <<>>
  /\ rn_yielded = <<>>
  /\ rn_pc = "idle"

IdleTools ==
  /\ tl_session = <<>>
  /\ tl_artifact = <<>>
  /\ tl_calls = <<>>
  /\ tl_overlap = 0
  /\ tl_started = 0

IdleNavigator == IdleBudget /\ IdleRunner /\ IdleTools

-----------------------------------------------------------------------------
(***************************************************************************)
(* Specifications.                                                         *)
(***************************************************************************)

InitCost ==
  InitManifest /\ IdleFlightPlan /\ IdleRender /\ IdleRepoMap /\ IdleRank
    /\ IdleTreeCache /\ IdleNavigator

NextCost == AddFile

SpecCost == InitCost /\ [][NextCost]_vars

InitResolve ==
  InitFlightPlan /\ IdleManifest /\ IdleRender /\ IdleRepoMap /\ IdleRank
    /\ IdleTreeCache /\ IdleNavigator

NextResolve == Resolve

SpecResolve == InitResolve /\ [][NextResolve]_vars

InitRenderer ==
  InitRender /\ IdleManifest /\ IdleFlightPlan /\ IdleRepoMap /\ IdleRank
    /\ IdleTreeCache /\ IdleNavigator

NextRender == RenderStep \/ RenderSummary

SpecRender == InitRenderer /\ [][NextRender]_vars

InitRepoMapEngine ==
  InitRepoMap /\ IdleManifest /\ IdleFlightPlan /\ IdleRender /\ IdleRank
    /\ IdleTreeCache /\ IdleNavigator

NextRepoMap == GetRepoMap \/ Probe \/ Return

SpecRepoMap == InitRepoMapEngine /\ [][NextRepoMap]_vars

InitRanking ==
  InitRank /\ IdleManifest /\ IdleFlightPlan /\ IdleRender /\ IdleRepoMap
    /\ IdleTreeCache /\ IdleNavigator

NextRank == GetRankedTags

SpecRank == InitRanking /\ [][NextRank]_vars

InitExcerpts ==
  InitTreeCache /\ IdleManifest /\ IdleFlightPlan /\ IdleRender /\ IdleRepoMap
    /\ IdleRank /\ IdleNavigator

NextTreeCache == RenderTree \/ WriteFile \/ RemoveFile \/ NewRun

SpecTreeCache == InitExcerpts /\ [][NextTreeCache]_vars

-----------------------------------------------------------------------------
(***************************************************************************)
(* Properties.                                                             *)
(***************************************************************************)

\* The rules of fp_verbosity whose pattern matches fp_path.
FpMatching == {i \in 1..Len(fp_verbosity) : fnmatch(fp_path, fp_verbosity[i].pattern)}

FpAllLevels == \A i \in 1..Len(fp_verbosity) : fp_verbosity[i].level # NoLevel

\* C3: when every rule carries a level, get_verbosity_for_path returns the
\* level of the last rule in list order whose pattern matches the path, and
\* level 4 when no rule matches or the list is empty.
C3_LastMatchWins ==
  (fp_pc = "done" /\ FpAllLevels) =>
     IF FpMatching = {}
     THEN fp_level = IMPLEMENTATION
     ELSE \E i \in FpMatching :
            /\ \A j \in FpMatching : j <= i
            /\ fp_level = fp_verbosity[i].level

\* A path matched by two rules with different levels, the later one not the default.
C3_Witness ==
  /\ fp_pc = "done"
  /\ FpAllLevels
  /\ \E i, j \in FpMatching :
       /\ i < j
       /\ \A k \in FpMatching : k <= j
       /\ fp_verbosity[i].level # fp_verbosity[j].level
       /\ fp_verbosity[j].level # IMPLEMENTATION
       /\ fp_level = fp_verbosity[j].level

\* C12: when the last rule in list order whose pattern matches the path
\* carries sections and no level, get_verbosity_for_path returns level 4,
\* whatever level an earlier matching rule assigned.
C12_SectionsRuleGivesFullContent ==
  (fp_pc = "done" /\ FpMatching # {}) =>
     \A i \in FpMatching :
       ((\A j \in FpMatching : j <= i) /\ fp_verbosity[i].has_sections)
         => fp_level = IMPLEMENTATION

\* The cost contributed by the i-th add_file call: costs[level], 0 when the
\* table has no entry for the level.
CallCost(i) ==
  IF cm_calls[i].level \in DOMAIN cm_calls[i].costs
  THEN cm_calls[i].costs[cm_calls[i].level]
  ELSE 0

\* C7 (as claimed): every five-level cost table computed by
\* cost.calculate_file_costs or ContextRenderer.calculate_file_costs has
\* cost[0] = 0 <= cost[1] <= cost[4] and cost[4] = len(content) // 4.
C7_CostMonotone ==
  \A i \in 1..Len(cm_calls) :
     cm_calls[i].how \in {"estimated", "exact", "renderer"} =>
        LET costs == cm_calls[i].costs
            content == RenderFile(cm_calls[i].file).content
        IN /\ costs[EXCLUDE] = 0
           /\ costs[EXCLUDE] <= costs[EXISTENCE]
           /\ costs[EXISTENCE] <= costs[IMPLEMENTATION]
           /\ costs[IMPLEMENTATION] = TextLen(content) \div 4

\* C8: after any sequence of add_file calls, actual is the sum over the
\* calls of costs[level] (0 when the level is absent), overrun is
\* max(0, actual - budget), and is_over_budget holds exactly when
\* actual > budget, equivalently overrun > 0.
C8_ManifestTotals ==
  /\ cm_actual = SumSeq([i \in 1..Len(cm_calls) |-> CallCost(i)])
  /\ overrun >= 0
  /\ overrun >= cm_actual - cm_budget
  /\ overrun \in {0, cm_actual - cm_budget}
  /\ is_over_budget <=> cm_actual > cm_budget
  /\ is_over_budget <=> overrun > 0

\* Two calls, one of them at a level its table lacks, ending over budget.
C8_Witness ==
  /\ Len(cm_calls) = 2
  /\ \E i \in 1..2 : cm_calls[i].level \notin DOMAIN cm_calls[i].costs
  /\ \E i \in 1..2 : CallCost(i) > 0
  /\ is_over_budget
  /\ overrun = cm_actual - cm_budget

-----------------------------------------------------------------------------
(***************************************************************************)
(* Properties of ContextRenderer.render (SpecRender).                      *)
(***************************************************************************)

\* The token costs of the emitted files, in order.
PartTokens == [k \in 1..Len(rd_output_parts) |-> rd_output_parts[k].tokens]

\* The files render has visited whose level is not EXCLUDE, in order.
RECURSIVE KeptFiles(_, _)
KeptFiles(files, n) ==
  IF n = 0 THEN <<>>
  ELSE LET rest == KeptFiles(files, n - 1)
           level == renderer_get_verbosity_for_path(RenderFile(files[n]).path)
       IN IF level = EXCLUDE THEN rest ELSE Append(rest, files[n])

\* What the file at the loop's position would cost at its level.
CurrentTokens ==
  LET fd == RenderFile(rd_files[rd_i])
  IN RenderTokens(fd, render_file_at_level(fd, renderer_get_verbosity_for_path(fd.path)).text)

\* C2: a strict render keeps the running total within the budget after every
\* file; it raises the budget error at the first non-excluded file whose cost
\* added to the running total exceeds the budget, before that file is counted
\* or emitted; a strict render that returns has no OVER BUDGET marker.
C2_StrictStopsAtBudget ==
  (rd_strict /\ rd_pc # "idle") =>
    /\ rd_total_tokens <= RenderBudget
    /\ \A k \in 1..Len(PartTokens) :
         SumSeq(SubSeq(PartTokens, 1, k)) <= RenderBudget
    /\ rd_pc = "returned" =>
         (~rd_summary.over /\ rd_summary.total <= rd_summary.budget)
    /\ rd_error.kind = "budget" =>
         /\ rd_pc = "raised"
         /\ rd_i <= Len(rd_files)
         /\ rd_error.file = rd_files[rd_i]
         /\ renderer_get_verbosity_for_path(RenderFile(rd_files[rd_i]).path) # EXCLUDE
         /\ rd_error.total = rd_total_tokens + CurrentTokens
         /\ rd_error.total > RenderBudget
         /\ \A k \in 1..Len(rd_output_parts) :
              rd_output_parts[k].file # rd_files[rd_i]
    /\ rd_error.kind # "query" => rd_total_tokens = SumSeq(PartTokens)

\* A strict render stopped by the budget at its second file, the first one
\* having been emitted.
C2_Witness ==
  /\ rd_strict
  /\ rd_pc = "raised"
  /\ rd_error.kind = "budget"
  /\ Len(rd_output_parts) = 1
  /\ rd_total_tokens > 0

\* C4: a render that is not strict never raises the budget error; it emits
\* exactly the visited files whose level is not EXCLUDE, in order, and when it
\* returns its summary carries the sum of the emitted files' token costs, the
\* budget, and the OVER BUDGET marker exactly when that sum exceeds the budget.
C4_NonStrictRendersAll ==
  (~rd_strict /\ rd_pc # "idle") =>
    /\ rd_error.kind # "budget"
    /\ [k \in 1..Len(rd_output_parts) |-> rd_output_parts[k].file]
         = KeptFiles(rd_files, rd_i - 1)
    /\ \A k \in 1..Len(rd_output_parts) :
         LET part == rd_output_parts[k]
             fd == RenderFile(part.file)
         IN /\ part.level = renderer_get_verbosity_for_path(fd.path)
            /\ part.level # EXCLUDE
            /\ part.tokens = RenderTokens(fd, part.text)
    /\ rd_pc = "returned" =>
         /\ rd_i = Len(rd_files) + 1
         /\ rd_summary.some
         /\ rd_summary.total = SumSeq(PartTokens)
         /\ rd_summary.budget = RenderBudget
         /\ rd_summary.over <=> (rd_summary.total > rd_summary.budget)

\* A render that is not strict returned over budget, having excluded one of
\* its two files.
C4_Witness ==
  /\ ~rd_strict
  /\ rd_pc = "returned"
  /\ rd_summary.over
  /\ Len(rd_files) = 2
  /\ Len(rd_output_parts) = 1

\* C13: a strict render under a flight plan that returns has an output
\* whose estimated token count, headers, fences, annotations and summary line
\* included, is at most the budget of the flight plan.
C13_StrictOutputFitsBudget ==
  (rd_pc = "returned" /\ rd_strict /\ rd_flight_plan.some /\ rd_files # <<>>) =>
     MapResultTotalTokens(rd_output_parts, rd_summary) <= rd_flight_plan.budget

\* The tags _render_with_treesitter reads for a file at a level.
LevelTags(fd, level) == get_tags_from_code(fd, Basename(fd.path), level).tags

\* The in-range line numbers of the Definition tags among tags, for a
\* content of n lines.
DefLines(tags, n) ==
  {tags[i].line : i \in {j \in 1..Len(tags) :
                           /\ tags[j].kind = "def"
                           /\ tags[j].line >= 0
                           /\ tags[j].line < n}}

\* The position of the first Definition tag on line l.
FirstTag(tags, l) ==
  CHOOSE i \in 1..Len(tags) :
    /\ tags[i].kind = "def"
    /\ tags[i].line = l
    /\ \A j \in 1..(i - 1) : ~(tags[j].kind = "def" /\ tags[j].line = l)

\* C10: at level 2 or 3, for a file of a supported language, every output line
\* is a line of the original content, there is exactly one output line per
\* distinct in-range line number of a Definition tag, no line number appears
\* twice, and the lines come in the order of the tags' first occurrences.
C10_DefinitionLinesOnce ==
  \A k \in 1..Len(rd_output_parts) :
    LET part == rd_output_parts[k]
        fd == RenderFile(part.file)
    IN (part.level \in {STRUCTURE, INTERFACE} /\ fd.lang) =>
         \E tags \in {LevelTags(fd, part.level)} :
         \E lines \in {splitlines(fd.content)} :
         \E out \in {splitlines(part.text)} :
         \E want \in {DefLines(tags, Len(lines))} :
           /\ Len(out) = Cardinality(want)
           /\ \A i \in 1..Len(out) :
                /\ out[i].idx \in want
                /\ out[i].idx \in 0..(Len(lines) - 1)
                /\ out[i] = lines[out[i].idx + 1]
           /\ \A i, j \in 1..Len(out) :
                i < j => /\ out[i].idx # out[j].idx
                         /\ FirstTag(tags, out[i].idx) < FirstTag(tags, out[j].idx)

\* s/c.py emitted at the structure level: two lines out of six captures, a
\* repeated definition, a reference and an out-of-range row left out.
C10_Witness ==
  \E k \in 1..Len(rd_output_parts) :
    /\ rd_output_parts[k].file = "calc"
    /\ rd_output_parts[k].level = STRUCTURE
    /\ Len(splitlines(rd_output_parts[k].text)) = 2
    /\ Len(LevelTags(CalcFile, STRUCTURE)) = 5

-----------------------------------------------------------------------------
(***************************************************************************)
(* Properties of RepoMap.get_repo_map (SpecRepoMap).                       *)
(***************************************************************************)

\* What the last call returned: [raised, tree].
LastResult == rm_results[Len(rm_results)]

\* len(text) // 4 of a returned map.
ResultTokens(r) == estimate_tokens(TextLen(r.tree.text))

\* The token count of the render of the first k ranked entries.
PrefixTokens(k) ==
  estimate_tokens(TextLen(to_tree([tree |-> {}, context |-> <<>>],
                                  SubSeq(rm_ranked_tags, 1, k),
                                  rm_corpus, rm_fault).text))

\* A call with a budget above 0 and a non-empty file list has returned.
ReturnedMap ==
  /\ rm_pc = "returned"
  /\ rm_max_map_tokens > 0
  /\ rm_fnames # {}
  /\ ~LastResult.raised

\* C1 as stated: for a budget b > 0 and a non-empty file list the call
\* returns a map of at most b tokens; the map exceeds b only when no
\* non-empty prefix renders within b, and it is then the render closest to b.
C1_WithinBudgetOrClosest ==
  ReturnedMap =>
    /\ LastResult.tree.some
    /\ \/ ResultTokens(LastResult) <= rm_max_map_tokens
       \/ /\ \A k \in 1..Len(rm_ranked_tags) : PrefixTokens(k) > rm_max_map_tokens
          /\ \A k \in 1..Len(rm_ranked_tags) : ResultTokens(LastResult) <= PrefixTokens(k)

\* C1 amended: for a budget b > 0 and a non-empty file list the call returns
\* either nothing, exactly when no probe rendered to between 1 and b tokens
\* or to within 15% of b, or the render of a probed prefix whose token count
\* is at most b or less than 15% above b.
C1_WithinBudgetOrTolerance ==
  ReturnedMap =>
    LET kept == {i \in 1..Len(rm_probes) : rm_probes[i].kept}
        n == ResultTokens(LastResult)
    IN /\ LastResult.tree.some <=> kept # {}
       /\ LastResult.tree.some =>
            /\ \E i \in kept :
                 /\ rm_probes[i].num_tokens = n
                 /\ PrefixTokens(rm_probes[i].middle) = n
            /\ \/ n <= rm_max_map_tokens
               \/ 100 * (n - rm_max_map_tokens) < 15 * rm_max_map_tokens
       /\ \A i \in 1..Len(rm_probes) :
            LET p == rm_probes[i].num_tokens
            IN rm_probes[i].kept <=>
                 \/ 100 * Abs(p - rm_max_map_tokens) < 15 * rm_max_map_tokens
                 \/ /\ p <= rm_max_map_tokens
                    /\ \A j \in 1..(i - 1) :
                         rm_probes[j].kept => rm_probes[j].num_tokens < p
                    /\ p > 0

\* A map above the budget is returned although a shorter non-empty prefix
\* renders within the budget.
C1_Witness ==
  /\ ReturnedMap
  /\ LastResult.tree.some
  /\ ResultTokens(LastResult) > rm_max_map_tokens
  /\ \E k \in 1..Len(rm_ranked_tags) : PrefixTokens(k) <= rm_max_map_tokens

\* C5: with a budget of 0 or less, or with no file, every call returns no
\* map and nothing is looked at, opened, ranked or rendered: the engine is
\* as it was built.
C5_NoMapNoWork ==
  (rm_pc # "idle" /\ (rm_max_map_tokens <= 0 \/ rm_fnames = {})) =>
    /\ rm_pc \in {"ready", "returned"}
    /\ \A i \in 1..Len(rm_results) :
         ~rm_results[i].raised /\ ~rm_results[i].tree.some
    /\ rm_effects = NoEffects
    /\ rm_probes = <<>>
    /\ rm_ranked_tags = <<>>
    /\ rm_tree_cache = {}
    /\ rm_tree_context_cache = <<>>
    /\ rm_warned_files = {}

\* Two calls with a budget of 0 on a list that holds a missing file.
C5_Witness ==
  /\ rm_max_map_tokens = 0
  /\ rm_fnames = RepoFiles
  /\ rm_fault.kind = "notfile"
  /\ Len(rm_results) = 2
  /\ rm_pc = "returned"

\* C6 as stated: a file that is missing or unreadable, of an unsupported
\* language, or whose parser, language or query cannot be loaded or run
\* yields no tags without raising, no call raises, a missing or unreadable
\* path is in the warned set once the files are scanned, and the map ranks
\* the remaining files.
C6_FileFailureNeverAborts ==
  (/\ rm_max_map_tokens > 0
   /\ rm_fault.file \in rm_fnames
   /\ rm_fault.kind \in FaultKinds \ {"empty"}
   /\ Len(rm_results) >= 1) =>
    /\ ~get_tags(RepoFile(rm_fault.file, rm_corpus, rm_fault)).raised
    /\ get_tags(RepoFile(rm_fault.file, rm_corpus, rm_fault)).tags = <<>>
    /\ \A i \in 1..Len(rm_results) : ~rm_results[i].raised
    /\ rm_fault.kind \in {"notfile", "readerr"} => rm_fault.file \in rm_warned_files
    /\ rm_pc = "returned" =>
         \A f \in rm_fnames : \E i \in 1..Len(rm_ranked_tags) :
           rm_ranked_tags[i].rel_fname = f

PrefixText(k) ==
  to_tree([tree |-> {}, context |-> <<>>], SubSeq(rm_ranked_tags, 1, k),
          rm_corpus, rm_fault).text

\* The token count of the render of every prefix, by its length.
AllPrefixTokens == [k \in 0..Len(rm_ranked_tags) |-> PrefixTokens(k)]

\* The token count does not decrease when the prefix grows.
NonDecreasing(pt) == \A k \in 1..Len(rm_ranked_tags) : pt[k - 1] <= pt[k]

\* The prefix lengths that render within the budget, and the longest of them.
Fitting(pt) == {k \in DOMAIN pt : pt[k] <= rm_max_map_tokens}

LongestFitting(pt) == CHOOSE k \in Fitting(pt) : \A j \in Fitting(pt) : j <= k

\* The probes of the call that rendered to within 15% of the budget.
TolerableProbes ==
  {i \in 1..Len(rm_probes) :
     100 * Abs(rm_probes[i].num_tokens - rm_max_map_tokens) < 15 * rm_max_map_tokens}

\* C14 as stated: when the token count is non-decreasing in the prefix
\* length, the call returns the render of the longest prefix whose token
\* count is at most the budget.
C14_LongestFittingPrefix ==
  ReturnedMap =>
    \E pt \in {AllPrefixTokens} :
      (NonDecreasing(pt) /\ LongestFitting(pt) > 0) =>
         /\ LastResult.tree.some
         /\ LastResult.tree.text = PrefixText(LongestFitting(pt))

\* C14 amended: when the token count is non-decreasing in the prefix length,
\* the call returns the render of the first probe within 15% of the budget,
\* if there is one; otherwise it returns a probed render with as many tokens
\* as the longest prefix within the budget, and nothing when that is 0 tokens.
C14_LargestFitUnlessTolerated ==
  ReturnedMap =>
    \E pt \in {AllPrefixTokens} :
      NonDecreasing(pt) =>
        IF TolerableProbes # {}
        THEN /\ TolerableProbes = {Len(rm_probes)}
             /\ LastResult.tree.some
             /\ LastResult.tree.text = PrefixText(rm_probes[Len(rm_probes)].middle)
        ELSE IF pt[LongestFitting(pt)] = 0
        THEN ~LastResult.tree.some
        ELSE /\ LastResult.tree.some
             /\ ResultTokens(LastResult) = pt[LongestFitting(pt)]
             /\ \E i \in 1..Len(rm_probes) :
                  /\ pt[rm_probes[i].middle] = pt[LongestFitting(pt)]
                  /\ LastResult.tree.text = PrefixText(rm_probes[i].middle)

\* A search of three probes or more, none within 15% of the budget, over
\* renders that grow with the prefix, returns the longest prefix that fits,
\* and a longer prefix does not fit.
C14_Witness ==
  /\ ReturnedMap
  /\ NonDecreasing(AllPrefixTokens)
  /\ TolerableProbes = {}
  /\ Len(rm_probes) >= 3
  /\ LastResult.tree.some
  /\ LongestFitting(AllPrefixTokens) < Len(rm_ranked_tags)
  /\ LastResult.tree.text = PrefixText(LongestFitting(AllPrefixTokens))

\* The probe a step of the search has just made.
NewProbe == rm_probes'[Len(rm_probes')]

\* C15: a step of the search replaces the best render only by the render of
\* the prefix it probed, and only when that render is within the budget with
\* strictly more tokens than the best so far, or within 15% of the budget;
\* the first probe within 15% ends the search; a map that is returned is the
\* render of a probed prefix and has less than 1.15 times the budget in tokens.
C15_BestKeptOnlyIfBetterOrTolerated ==
  [][/\ (rm_pc = "search" /\ rm_best_tree' # rm_best_tree) =>
          /\ Len(rm_probes') = Len(rm_probes) + 1
          /\ NewProbe.middle = rm_middle
          /\ rm_best_tree' = [some |-> TRUE, text |-> PrefixText(rm_middle)]
          /\ rm_best_tree_tokens' = NewProbe.num_tokens
          /\ \/ /\ NewProbe.num_tokens <= rm_max_map_tokens
                /\ NewProbe.num_tokens > rm_best_tree_tokens
             \/ 100 * Abs(NewProbe.num_tokens - rm_max_map_tokens)
                  < 15 * rm_max_map_tokens
     /\ (rm_pc = "search" /\ Len(rm_probes') = Len(rm_probes) + 1) =>
          ((100 * Abs(NewProbe.num_tokens - rm_max_map_tokens)
              < 15 * rm_max_map_tokens)
             <=> rm_pc' = "break")
     /\ rm_pc = "break" => (rm_pc' = "returned" /\ rm_probes' = rm_probes)
     /\ (rm_pc \in {"search", "break"} /\ rm_pc' = "returned") =>
          LET r == rm_results'[Len(rm_results')]
          IN /\ r.tree = rm_best_tree
             /\ r.tree.some =>
                  /\ \E i \in 1..Len(rm_probes) :
                       r.tree.text = PrefixText(rm_probes[i].middle)
                  /\ 100 * ResultTokens(r) < 115 * rm_max_map_tokens
    ]_vars

\* A call returned a render above the budget that a probe within 15% of the
\* budget put in the place of a smaller render kept before.
C15_Witness ==
  /\ ReturnedMap
  /\ LastResult.tree.some
  /\ Len(rm_probes) >= 2
  /\ \E i \in 1..(Len(rm_probes) - 1) :
       rm_probes[i].kept /\ rm_probes[i].num_tokens < rm_max_map_tokens
  /\ rm_probes[Len(rm_probes)].kept
  /\ rm_probes[Len(rm_probes)].num_tokens > rm_max_map_tokens
  /\ ResultTokens(LastResult) = rm_probes[Len(rm_probes)].num_tokens

\* The prefix lengths probed so far by the running call.
ProbedLengths == {rm_probes[i].middle : i \in 1..Len(rm_probes)}

\* The probes of a search lie in 0..N, are all different and are N + 1 at
\* most; the length probed next lies between the bounds, and no length
\* between the bounds was probed before.
ProbesBounded ==
  rm_pc \in {"search", "break", "returned"} =>
    /\ ProbedLengths \subseteq 0..Len(rm_ranked_tags)
    /\ Cardinality(ProbedLengths) = Len(rm_probes)
    /\ Len(rm_probes) <= Len(rm_ranked_tags) + 1
    /\ rm_pc = "search" =>
         /\ 0 <= rm_lower_bound
         /\ rm_upper_bound <= Len(rm_ranked_tags)
         /\ ProbedLengths \cap (rm_lower_bound..rm_upper_bound) = {}
         /\ rm_lower_bound <= rm_upper_bound =>
              (rm_lower_bound <= rm_middle /\ rm_middle <= rm_upper_bound)

\* C16: for a ranked list of N entries and a budget above 0 the search loop
\* ends: every probed prefix length is in 0..N, no length is rendered twice,
\* at most N + 1 probes are made, and every iteration after which the loop
\* goes on has brought the bounds strictly closer together.
C16_SearchTerminates ==
  /\ []ProbesBounded
  /\ [][(rm_pc = "search" /\ rm_pc' = "search") =>
          /\ rm_lower_bound' >= rm_lower_bound
          /\ rm_upper_bound' <= rm_upper_bound
          /\ rm_upper_bound' - rm_lower_bound' < rm_upper_bound - rm_lower_bound
          /\ Len(rm_probes') = Len(rm_probes) + 1]_vars

\* A search over five entries or more that returned after four probes or
\* more, the first of them not at the middle of the list.
C16_Witness ==
  /\ rm_pc = "returned"
  /\ Len(rm_ranked_tags) >= 5
  /\ Len(rm_probes) >= 4
  /\ 2 * rm_probes[1].middle + 1 < Len(rm_ranked_tags)

-----------------------------------------------------------------------------
\* Where the entries of a file, and the definition tags of a name in a file,
\* stand in a ranked list.
EntriesOf(ranked_tags, fname) ==
  {i \in 1..Len(ranked_tags) : ranked_tags[i].rel_fname = fname}

DefsOf(ranked_tags, fname, name) ==
  {i \in EntriesOf(ranked_tags, fname) :
     ranked_tags[i].kind = "def" /\ ranked_tags[i].name = name}

\* C11: for auth.py that defines login, main.py that calls login twice and
\* util.py that is related to neither, the ranked list holds auth.py's
\* definition of login, and holds it before every entry of util.py.
C11_LoginBeforeUtil ==
  (rk_pc = "done" /\ rk_files \in ScenarioRepos /\ ~PageRankGivesUp(rk_failures)) =>
    /\ DefsOf(rk_ranked_tags, AUTH_PY, login) # {}
    /\ \A i \in DefsOf(rk_ranked_tags, AUTH_PY, login) :
         \A j \in EntriesOf(rk_ranked_tags, UTIL_PY) : i < j

\* The running call ranked its files and handed the list to the search.
Ranked == rm_pc \in {"search", "break", "returned"} /\ rm_effects.ranked

\* C17: in the list handed to the search every entry belongs to an input
\* file; a file listed by a placeholder has no other entry, Tag or
\* placeholder; no Tag is listed twice; and when nx.pagerank returned, every
\* input file has an entry.
C17_OnePathPerFile ==
  Ranked =>
    /\ \A i \in 1..Len(rm_ranked_tags) : rm_ranked_tags[i].rel_fname \in rm_fnames
    /\ \A f \in rm_fnames :
         (\E i \in EntriesOf(rm_ranked_tags, f) : rm_ranked_tags[i].kind = "file")
           => Cardinality(EntriesOf(rm_ranked_tags, f)) = 1
    /\ \A i, j \in 1..Len(rm_ranked_tags) :
         (i < j /\ rm_ranked_tags[i].kind # "file")
           => rm_ranked_tags[i] # rm_ranked_tags[j]
    /\ ~PageRankGivesUp(PageRankFailures(rm_fault)) =>
         \A f \in rm_fnames : EntriesOf(rm_ranked_tags, f) # {}

\* A list over four files: one with two Tag entries, a special file and a
\* path that is not a file, each with one placeholder.
C17_Witness ==
  /\ Ranked
  /\ Cardinality(rm_fnames) = 4
  /\ rm_fault.kind = "notfile"
  /\ Cardinality(EntriesOf(rm_ranked_tags, rm_fault.file)) = 1
  /\ Cardinality(EntriesOf(rm_ranked_tags, README_MD)) = 1
  /\ \E f \in rm_fnames :
       /\ Cardinality(EntriesOf(rm_ranked_tags, f)) >= 2
       /\ \A i \in EntriesOf(rm_ranked_tags, f) : rm_ranked_tags[i].kind = "def"

-----------------------------------------------------------------------------
(***************************************************************************)
(* Properties of the symbol graph (SpecRank).  Weights are in hundredths.  *)
(***************************************************************************)

\* The files that define a name, and the references a file makes to it,
\* among the tags gathered from the files.
DefinersIn(tags, n) ==
  {tags[i].rel_fname : i \in {j \in 1..Len(tags) : tags[j].kind = "def" /\ tags[j].name = n}}

RefsIn(tags, n, f) ==
  Cardinality({j \in 1..Len(tags) :
                 tags[j].kind = "ref" /\ tags[j].name = n /\ tags[j].rel_fname = f})

FilesIn(tags) == {tags[i].rel_fname : i \in 1..Len(tags)}

NamesIn(tags) == {tags[i].name : i \in 1..Len(tags)}

\* The product of the multipliers that apply to a name, in hundredths: 10
\* for a multi-word name of 8 characters or more, 0.1 for a leading
\* underscore, 0.1 for more than 5 defining files.
Multiplier(n, num_definers) ==
  LET has(S) == \E i \in 1..Len(n) : n[i] \in S
      chars == {AsciiOrder[i] : i \in 1..Len(AsciiOrder)}
      upper == {c \in chars : isupper(c)}
      letters == upper \cup {c \in chars : islower(c)}
      multi_word == \/ has({"_"}) /\ has(letters)
                    \/ has({"-"}) /\ has(letters)
                    \/ has(upper) /\ has(letters \ upper)
      boost == IF multi_word /\ Len(n) >= 8 THEN 10 ELSE 1
      private == IF Len(n) > 0 /\ n[1] = "_" THEN 10 ELSE 1
      common == IF num_definers > 5 THEN 10 ELSE 1
  IN (100 * boost) \div (private * common)

\* w is sqrt(refs) times the multiplier m, rounded down to a hundredth.
IsScaledRoot(w, m, refs) == w * w <= m * m * refs /\ m * m * refs < (w + 1) * (w + 1)

\* The edges of the graph for the names that refs counts as referenced:
\* one edge per name, referencing file and defining file with the weight
\* sqrt(references) times the multipliers, and for a defined name without a
\* reference nothing but a self edge of weight 0.1 on each defining file.
EdgesAsClaimed(edges, tags, refs(_, _)) ==
  /\ \A e \in edges :
       /\ e.dst \in DefinersIn(tags, e.ident)
       /\ \A e2 \in edges :
            (e2.src = e.src /\ e2.dst = e.dst /\ e2.ident = e.ident) => e2 = e
  /\ \A n \in NamesIn(tags) : \A d \in DefinersIn(tags, n) :
       IF \E f \in FilesIn(tags) : refs(n, f) > 0
       THEN \A f \in FilesIn(tags) :
              IF refs(n, f) > 0
              THEN \E e \in edges :
                     /\ e.src = f /\ e.dst = d /\ e.ident = n
                     /\ IsScaledRoot(e.weight,
                                     Multiplier(n, Cardinality(DefinersIn(tags, n))),
                                     refs(n, f))
              ELSE ~\E e \in edges : e.src = f /\ e.dst = d /\ e.ident = n
       ELSE /\ \A e \in edges :
                 (e.ident = n /\ e.dst = d) => (e.src = d /\ e.weight = 10)
            /\ \E e2 \in edges : e2.ident = n /\ e2.dst = d /\ e2.src = d

\* C18 as stated: the references are the Reference tags of the files.
C18_EdgesFromReferences ==
  rk_pc = "done" =>
    LET refs(n, f) == RefsIn(rk_tags, n, f)
    IN EdgesAsClaimed(rk_edges, rk_tags, refs)

\* No file of the repository holds a Reference tag.
NoReferenceAtAll == \A i \in 1..Len(rk_tags) : rk_tags[i].kind # "ref"

\* C18 amended: when the files hold no Reference tag at all, every file that
\* defines a name counts as referring to it once; otherwise the references
\* are the Reference tags of the files.
C18_EdgesFromReferencesOrDefinitions ==
  rk_pc = "done" =>
    LET refs(n, f) == IF NoReferenceAtAll
                      THEN (IF f \in DefinersIn(rk_tags, n) THEN 1 ELSE 0)
                      ELSE RefsIn(rk_tags, n, f)
    IN EdgesAsClaimed(rk_edges, rk_tags, refs)

\* A private multi-word name defined in six files and referred to four times
\* by another file: six edges of weight 10 * 0.1 * 0.1 * sqrt(4) = 0.2.
C18_Witness ==
  /\ rk_pc = "done"
  /\ \E n \in NamesIn(rk_tags) :
       /\ n[1] = "_"
       /\ Len(n) >= 8
       /\ Cardinality(DefinersIn(rk_tags, n)) = 6
       /\ Cardinality({e \in rk_edges : e.ident = n /\ e.weight = 20
                                          /\ e.src \notin DefinersIn(rk_tags, n)}) = 6

-----------------------------------------------------------------------------
(***************************************************************************)
(* A failing nx.pagerank (SpecRepoMap).                                    *)
(***************************************************************************)

\* ranked_tags is the list get_repo_map searches when nx.pagerank returns at
\* its first call.
IsRankedTagsWithoutFailure(ranked_tags) ==
  \E scan \in {ScanFiles(SortedStrs(rm_fnames), rm_corpus, rm_fault, NoScan)} :
  \E edges \in {GraphEdges(scan.tags)} :
  \E ranked \in {pagerank(edges)} :
  \E rt \in {RankedTags(scan.tags, edges, ranked, rm_fnames, rm_hashseed)} :
    ranked_tags = SpecialEntries(rt, rm_fnames) \o rt

\* C19: a call that reaches nx.pagerank calls it once when it returns and
\* twice when its first call raises ZeroDivisionError; when the second call
\* raises too the ranking is empty (the searched list holds placeholders of
\* special files only), when it returns the list is the one of a run without
\* failure; in both cases get_repo_map does not raise.
C19_PageRankRetriedOnce ==
  (rm_effects.ranked /\ rm_fault \in PageRankFaults) =>
    /\ rm_effects.pagerank_calls = 2
    /\ rm_pc # "raised"
    /\ rm_pc = "returned" => ~rm_results[Len(rm_results)].raised
    /\ rm_fault.kind = "pagerank2" =>
         \A i \in 1..Len(rm_ranked_tags) :
           rm_ranked_tags[i].kind = "file" /\ is_important(rm_ranked_tags[i].rel_fname)
    /\ (rm_fault.kind = "pagerank1" /\ rm_pc = "search" /\ rm_probes = <<>>) =>
         IsRankedTagsWithoutFailure(rm_ranked_tags)

\* Both calls of nx.pagerank raised on a repository with definitions and a
\* README: the call returned the map of the README alone.
C19_Witness ==
  /\ rm_fault.kind = "pagerank2"
  /\ rm_effects.pagerank_calls = 2
  /\ {A_PY, B_PY, README_MD} \subseteq rm_fnames
  /\ rm_pc = "returned"
  /\ rm_ranked_tags = <<FileEntry(README_MD)>>
  /\ ~rm_results[Len(rm_results)].raised
  /\ rm_results[Len(rm_results)].tree.some

-----------------------------------------------------------------------------
(***************************************************************************)
(* Properties of the excerpt cache (SpecTreeCache).                        *)
(***************************************************************************)

\* s lists its numbers in ascending order.
Ascending(s) == \A i \in 1..(Len(s) - 1) : s[i] <= s[i + 1]

\* The key of the last request: its path, its lines in ascending order, and
\* the modification time the file had when the request was made.
RequestKeys ==
  {[rel_fname |-> tc_last.rel_fname, lois |-> l, mtime |-> tc_last.mtime] :
     l \in {s \in [1..Len(tc_last.lois) -> Range(tc_last.lois)] :
              /\ Ascending(s)
              /\ \A x \in Range(s) :
                   Cardinality({i \in 1..Len(s) : s[i] = x})
                     = Cardinality({i \in 1..Len(s) : tc_last.lois[i] = x})}}

\* The entries the cache held under the key of the last request.
StoredBefore == {e \in tc_last.before : e.key \in RequestKeys}

\* C20: a request whose key has an entry in the cache of the run returns
\* the string of that entry, renders nothing and leaves the cache as it is;
\* a request whose key has no entry is rendered, whatever the cache holds
\* under other keys (the same path and lines at another modification time,
\* other lines, another path), and its string is stored under its own key;
\* the cache never holds two entries under one key.
C20_HitReturnsStoredString ==
  /\ \A e1, e2 \in tc_tree_cache : e1.key = e2.key => e1 = e2
  /\ tc_last # NoRequest =>
       /\ StoredBefore # {} =>
            /\ \A e \in StoredBefore : tc_last.res = e.res
            /\ tc_last.built = 0
            /\ tc_tree_cache = tc_last.before
       /\ StoredBefore = {} =>
            /\ tc_last.built = 1
            /\ tc_tree_cache =
                 tc_last.before \cup {[key |-> k, res |-> tc_last.res] : k \in RequestKeys}

\* A request for lines 4 and 1 of a.py is answered from the entry stored for
\* lines 1 and 4, while the cache holds another string for the same lines
\* at the file's former modification time.
C20_Witness ==
  /\ tc_last.rel_fname = A_PY
  /\ tc_last.lois = <<4, 1>>
  /\ tc_last.built = 0
  /\ \E e \in tc_last.before :
       /\ e.key = [rel_fname |-> A_PY, lois |-> <<1, 4>>, mtime |-> tc_last.mtime]
       /\ e.res = tc_last.res
  /\ \E e \in tc_last.before :
       /\ e.key.rel_fname = A_PY
       /\ e.key.lois = <<1, 4>>
       /\ e.key.mtime # tc_last.mtime
       /\ e.res # tc_last.res

-----------------------------------------------------------------------------
(***************************************************************************)
(* The order of the placeholders in the searched list (SpecRepoMap).       *)
(***************************************************************************)

\* In the list handed to the search no placeholder of a file precedes a Tag.
PlaceholdersAfterTags ==
  \A i, j \in 1..Len(rm_ranked_tags) :
    (rm_ranked_tags[i].kind = "file" /\ rm_ranked_tags[j].kind # "file") => j < i

\* Among the placeholders no other file precedes a special file.
SpecialPlaceholdersFirst ==
  \A i, j \in 1..Len(rm_ranked_tags) :
    (/\ rm_ranked_tags[i].kind = "file"
     /\ rm_ranked_tags[j].kind = "file"
     /\ ~is_important(rm_ranked_tags[i].rel_fname)
     /\ is_important(rm_ranked_tags[j].rel_fname)) => j < i

\* C21: in the list handed to the search every placeholder comes after all
\* Tag entries, and among the placeholders the special files come first.
C21_PlaceholdersLastSpecialFirst ==
  Ranked => (PlaceholdersAfterTags /\ SpecialPlaceholdersFirst)

\* The first half of C21 alone.
C21_PlaceholdersAfterTags == Ranked => PlaceholdersAfterTags

-----------------------------------------------------------------------------
(***************************************************************************)
(* The cost render adds for a file and the file's cost table (SpecRender). *)
(***************************************************************************)

\* C22: the tokens render added to its total for an emitted file are the
\* entry, at the level the file was rendered at, of the five-level cost
\* table calculate_file_costs gives for that file.
C22_AddedCostIsTableEntry ==
  \A i \in 1..Len(rd_output_parts) :
    LET part == rd_output_parts[i]
    IN part.level \in 1..4 =>
         part.tokens = renderer_calculate_file_costs(RenderFile(part.file))[part.level]

\* The same for the files whose render at their level is not empty.
C22_AddedCostIsTableEntryOfRenderedText ==
  \A i \in 1..Len(rd_output_parts) :
    LET part == rd_output_parts[i]
    IN (part.level \in 2..4 /\ TextLen(part.text) > 0) =>
         part.tokens = renderer_calculate_file_costs(RenderFile(part.file))[part.level]

-----------------------------------------------------------------------------
(***************************************************************************)
(* The section rules of a path (SpecResolve).                              *)
(***************************************************************************)

\* The rules of the list that match the path and carry sections.
SectionRuleIndexes ==
  {i \in 1..Len(fp_verbosity) :
     fnmatch(fp_path, fp_verbosity[i].pattern) /\ fp_verbosity[i].has_sections}

\* C23, for FlightPlan.get_section_rules_for_path: the sections returned for
\* a path are those of the last rule in list order that matches the path and
\* carries sections, and None when there is no such rule.
C23_LastSectionsRuleWins ==
  fp_pc = "done" =>
    IF SectionRuleIndexes = {}
    THEN ~fp_sections.some
    ELSE /\ fp_sections.some
         /\ \E i \in SectionRuleIndexes :
              /\ \A j \in SectionRuleIndexes : j <= i
              /\ fp_sections.sections = fp_verbosity[i].sections

\* What the method does: the sections of the first such rule are returned.
C23_FirstSectionsRuleWins ==
  fp_pc = "done" =>
    IF SectionRuleIndexes = {}
    THEN ~fp_sections.some
    ELSE /\ fp_sections.some
         /\ \E i \in SectionRuleIndexes :
              /\ \A j \in SectionRuleIndexes : i <= j
              /\ fp_sections.sections = fp_verbosity[i].sections

-----------------------------------------------------------------------------
(***************************************************************************)
(* The budget plugin of the navigator (repo_map/navigator/plugin.py).      *)
(* Amounts of money are counted in units of GCP_BILLING_PRECISION, a       *)
(* billionth of a dollar; a rate per million tokens is counted in          *)
(* thousandths of a dollar, so that tokens times rate is an amount.        *)
(***************************************************************************)

\* session.state holds no "navigator" entry.
NoState == <<>>

\* LlmResponse.usage_metadata is None.
NoUsage == <<>>

AttributeError == "AttributeError"

NameError == "NameError"

PluginExceptions == {AttributeError, NameError}

\* GEMINI_3_FLASH_PRICING: 0.50 and 3.00 dollars per million tokens.
GEMINI_3_FLASH_PRICING == [input_per_million |-> 500, output_per_million |-> 3000]

\* ModelPricing.calculate_cost(self, input_tokens, output_tokens): the sum is
\* a whole number of billionths, which quantize leaves as it is.
ModelPricing_calculate_cost(self, input_tokens, output_tokens) ==
  input_tokens * self.input_per_million + output_tokens * self.output_per_million

\* obj.name on a model object: the value of the field, AttributeError for a
\* name that is not a field of the class.
getattr(obj, name) == IF name \in DOMAIN obj THEN obj[name] ELSE AttributeError

\* BudgetConfig(max_spend_usd, current_spend_usd, model_pricing)
BudgetConfig(max_spend_usd, current_spend_usd, model_pricing) ==
  [max_spend_usd |-> max_spend_usd, current_spend_usd |-> current_spend_usd,
   model_pricing |-> model_pricing]

\* calculate_cost(input_tokens, output_tokens,
\*                state.budget_config.model_pricing_rates)
\* as the callbacks write it: the arguments are evaluated first, and
\* BudgetConfig has no field model_pricing_rates; the module pricing defines
\* calculate_cost as a method of ModelPricing only, so the global name would
\* not resolve either.
calculate_cost(input_tokens, output_tokens, budget_config) ==
  IF getattr(budget_config, "model_pricing_rates") = AttributeError
  THEN AttributeError
  ELSE NameError

ESTIMATED_OUTPUT_TOKENS == 2000

\* BudgetEnforcementPlugin._estimate_request_cost(llm_request, state), for a
\* request whose parts hold text_len characters of text.
estimate_request_cost(text_len, state) ==
  LET estimated_input_tokens == text_len \div 4
      estimated_output_tokens == ESTIMATED_OUTPUT_TOKENS
  IN calculate_cost(estimated_input_tokens, estimated_output_tokens,
                    state.budget_config)

\* BudgetEnforcementPlugin.before_model_callback: what it returns or raises,
\* and the navigator state it leaves in the session.
before_model_callback(session_state, text_len) ==
  IF session_state = NoState
  THEN [result |-> "None", state |-> session_state]
  ELSE LET estimated_cost == estimate_request_cost(text_len, session_state)
           budget_config == session_state.budget_config
       IN IF estimated_cost \in PluginExceptions
          THEN [result |-> estimated_cost, state |-> session_state]
          ELSE IF budget_config.current_spend_usd + estimated_cost
                    > budget_config.max_spend_usd
               THEN [result |-> "BUDGET_EXCEEDED", state |-> session_state]
               ELSE [result |-> "None", state |-> session_state]

\* BudgetEnforcementPlugin.after_model_callback: what it returns or raises,
\* the navigator state it leaves in the session and _last_iteration_cost.
after_model_callback(session_state, usage, last_iteration_cost) ==
  IF usage = NoUsage
  THEN [result |-> "None", state |-> session_state, last_iteration_cost |-> 0]
  ELSE IF session_state = NoState
  THEN [result |-> "None", state |-> session_state,
        last_iteration_cost |-> last_iteration_cost]
  ELSE LET input_tokens == usage.prompt_token_count
           output_tokens == usage.candidates_token_count
           cost == calculate_cost(input_tokens, output_tokens,
                                  session_state.budget_config)
       IN IF cost \in PluginExceptions
          THEN [result |-> cost, state |-> session_state,
                last_iteration_cost |-> last_iteration_cost]
          ELSE [result |-> "None",
                state |-> [session_state EXCEPT
                             !.budget_config.current_spend_usd = @ + cost],
                last_iteration_cost |-> cost]

\* The callbacks the model runs.
MaxCallbacks == 3

\* Budgets of the tests of the plugin: a thousandth and a hundredth of a dollar.
PlBudgets ==
  {<<1000000, 0>>, <<1000000, 900000>>, <<10000000, 0>>, <<10000000, 900000>>,
   <<10000000, 9900000>>}

\* The characters of text a request carries.
PlTextLengths == {0, 3, 12, 10000}

\* The usage a response reports: prompt_token_count and
\* candidates_token_count, where None counts as 0.
PlUsages ==
  {NoUsage} \cup
  {[prompt_token_count |-> i, candidates_token_count |-> o] :
     i \in {0, 100, 10000}, o \in {0, 50, 2000}}

InitPlugin ==
  /\ pl_state \in {NoState} \cup
       {[budget_config |-> BudgetConfig(b[1], b[2], GEMINI_3_FLASH_PRICING)] :
          b \in PlBudgets}
  /\ pl_last_iteration_cost = 0
  /\ pl_last = <<>>
  /\ pl_calls = 0

\* The framework asks the plugin before a request goes to the model.
BeforeModel ==
  /\ pl_calls < MaxCallbacks
  /\ \E text_len \in PlTextLengths :
     \E r \in {before_model_callback(pl_state, text_len)} :
       /\ pl_state' = r.state
       /\ pl_last' = [op |-> "before_model_callback", text_len |-> text_len,
                      usage |-> NoUsage, before |-> pl_state,
                      result |-> r.result]
  /\ pl_calls' = pl_calls + 1
  /\ UNCHANGED <<pl_last_iteration_cost, rnVars, tlVars, cmVars, fpVars, rdVars,
                 rmVars, rkVars, tcVars>>

\* The framework hands the plugin the response of the model.
AfterModel ==
  /\ pl_calls < MaxCallbacks
  /\ \E usage \in PlUsages :
     \E r \in {after_model_callback(pl_state, usage, pl_last_iteration_cost)} :
       /\ pl_state' = r.state
       /\ pl_last_iteration_cost' = r.last_iteration_cost
       /\ pl_last' = [op |-> "after_model_callback", text_len |-> 0,
                      usage |-> usage, before |-> pl_state,
                      result |-> r.result]
  /\ pl_calls' = pl_calls + 1
  /\ UNCHANGED <<rnVars, tlVars, cmVars, fpVars, rdVars, rmVars, rkVars, tcVars>>

InitBudgetPlugin ==
  InitPlugin /\ IdleManifest /\ IdleFlightPlan /\ IdleRender /\ IdleRepoMap
    /\ IdleRank /\ IdleTreeCache /\ IdleRunner /\ IdleTools

NextPlugin == BeforeModel \/ AfterModel

SpecPlugin == InitBudgetPlugin /\ [][NextPlugin]_vars

(***************************************************************************)
(* C24: the request is blocked exactly when the projected spend exceeds    *)
(* the budget.                                                             *)
(***************************************************************************)

\* The cost the claim estimates for a request: a quarter of the characters
\* as input tokens and 2000 output tokens, at the rates of the model.
EstimatedCostAsClaimed(state, text_len) ==
  ModelPricing_calculate_cost(state.budget_config.model_pricing,
                              text_len \div 4, 2000)

\* C24, for BudgetEnforcementPlugin.before_model_callback on a session with a
\* navigator state: the callback returns the BUDGET_EXCEEDED response exactly
\* when current_spend_usd plus the estimated cost of the request is greater
\* than max_spend_usd, returns None otherwise, and leaves the state as it was.
C24_BlockedExactlyWhenOverBudget ==
  (pl_last # <<>> /\ pl_last.op = "before_model_callback"
     /\ pl_last.before # NoState) =>
    /\ pl_last.result =
         IF pl_last.before.budget_config.current_spend_usd
              + EstimatedCostAsClaimed(pl_last.before, pl_last.text_len)
              > pl_last.before.budget_config.max_spend_usd
         THEN "BUDGET_EXCEEDED" ELSE "None"
    /\ pl_state = pl_last.before

(***************************************************************************)
(* C25: the spend is accounted and never exceeds the budget.               *)
(***************************************************************************)

\* C25, for BudgetEnforcementPlugin.after_model_callback on a session with a
\* navigator state: a response with usage metadata adds exactly the cost of
\* the reported tokens to current_spend_usd, a response without adds
\* nothing, and current_spend_usd never exceeds max_spend_usd.
C25_SpendAccountedWithinBudget ==
  /\ (pl_last # <<>> /\ pl_last.op = "after_model_callback"
        /\ pl_last.before # NoState) =>
       pl_state.budget_config.current_spend_usd =
         pl_last.before.budget_config.current_spend_usd +
           (IF pl_last.usage = NoUsage THEN 0
            ELSE ModelPricing_calculate_cost(
                   pl_last.before.budget_config.model_pricing,
                   pl_last.usage.prompt_token_count,
                   pl_last.usage.candidates_token_count))
  /\ pl_state # NoState =>
       pl_state.budget_config.current_spend_usd
         <= pl_state.budget_config.max_spend_usd

-----------------------------------------------------------------------------
(***************************************************************************)
(* The autonomous loop of the navigator (run_autonomous,                   *)
(* repo_map/navigator/runner.py).  The generator runs the agent once per   *)
(* iteration; what an agent run leaves in the session is what its tool     *)
(* calls persisted (repo_map/navigator/tools.py).                          *)
(***************************************************************************)

\* The largest max_iterations the model runs.
MaxIterations == 3

\* MapMetadata.budget_utilization: Field(ge=0, le=100).
MAX_BUDGET_UTILIZATION == 100

\* The utilization update_flight_plan stores: total_tokens / budget * 100 of
\* the map the command line printed, which is above 100 for a map that
\* reports more tokens than the budget.
RnUtilizations == {0, 50, 100, 150}

\* NavigatorState.model_validate(state_dict) raises ValidationError for a
\* state whose map_metadata.budget_utilization is above 100.
model_validate_ok(state_dict) ==
  state_dict.budget_utilization <= MAX_BUDGET_UTILIZATION

\* The navigator state initialize_session stores.
RnInitialState ==
  [decision_log |-> <<>>, exploration_complete |-> FALSE,
   reasoning_summary |-> "", budget_utilization |-> 0]

\* What the tool calls of one agent run leave in the session: nothing, or
\* the state update_flight_plan persists, or the state finalize_context
\* persists. Both read the state with get_navigator_state first and return
\* an error, persisting nothing, when it does not validate.
AgentRunStates(s) ==
  {s} \cup
  (IF model_validate_ok(s)
   THEN {[s EXCEPT !.decision_log = Append(@, "update_flight_plan"),
                   !.budget_utilization = u] : u \in RnUtilizations}
        \cup
        {[s EXCEPT !.decision_log = Append(@, "finalize_context"),
                   !.exploration_complete = TRUE,
                   !.reasoning_summary = "summary"]}
   ELSE {})

\* The final response of an agent run: none, a text, or the text the budget
\* plugin puts in place of the model's answer.
RnFinalResponses == {"None", "text", "BUDGET_EXCEEDED"}

NavigatorProgress(step, state, final_response) ==
  [kind |-> "NavigatorProgress", step |-> step,
   action |-> IF state.decision_log = <<>> THEN "unknown"
              ELSE state.decision_log[Len(state.decision_log)],
   complete |-> state.exploration_complete,
   exceeded |-> (final_response = "BUDGET_EXCEEDED")]

NavigatorOutput(state) ==
  [kind |-> "NavigatorOutput", reasoning_summary |-> state.reasoning_summary,
   total_iterations |-> Len(state.decision_log)]

InitRunner ==
  /\ rn_max_iterations \in 0..MaxIterations
  /\ rn_session = RnInitialState
  /\ rn_state = <<>>
  /\ rn_iteration = 0
  /\ rn_final_response = "None"
  /\ rn_yielded = <<>>
  /\ rn_pc = "start"

\* run_autonomous up to the loop: the session is read and its state validated.
StartRun ==
  /\ rn_pc = "start"
  /\ rn_iteration' = 0
  /\ IF model_validate_ok(rn_session)
     THEN rn_state' = rn_session /\ rn_pc' = "loop"
     ELSE rn_state' = rn_state /\ rn_pc' = "raised"
  /\ UNCHANGED <<rn_max_iterations, rn_session, rn_final_response, rn_yielded,
                 plVars, tlVars, cmVars, fpVars, rdVars, rmVars, rkVars, tcVars>>

\* One pass of the loop body: the agent runs, the state is read back and
\* validated, the progress is yielded, and the loop is left on
\* exploration_complete or on a BUDGET_EXCEEDED response.
AgentIteration ==
  /\ rn_pc = "loop"
  /\ rn_iteration < rn_max_iterations
  /\ rn_iteration' = rn_iteration + 1
  /\ \E after_run \in AgentRunStates(rn_session),
        final_response \in RnFinalResponses :
       /\ rn_final_response' = final_response
       /\ IF ~model_validate_ok(after_run)
          THEN /\ rn_session' = after_run
               /\ rn_pc' = "raised"
               /\ UNCHANGED <<rn_state, rn_yielded>>
          ELSE /\ rn_yielded' =
                    Append(rn_yielded,
                           NavigatorProgress(rn_iteration + 1, after_run,
                                             final_response))
               /\ IF after_run.exploration_complete
                  THEN /\ rn_state' = after_run
                       /\ rn_session' = after_run
                       /\ rn_pc' = "final"
                  ELSE IF final_response = "BUDGET_EXCEEDED"
                  THEN /\ rn_state' =
                            [after_run EXCEPT !.exploration_complete = TRUE,
                                              !.reasoning_summary = "budget"]
                       /\ rn_session' = rn_state'
                       /\ rn_pc' = "final"
                  ELSE /\ rn_state' = after_run
                       /\ rn_session' = after_run
                       /\ rn_pc' = "loop"
  /\ UNCHANGED <<rn_max_iterations,
                 plVars, tlVars, cmVars, fpVars, rdVars, rmVars, rkVars, tcVars>>

\* The else clause of the loop: max_iterations passes were made.
MaxIterationsReached ==
  /\ rn_pc = "loop"
  /\ ~(rn_iteration < rn_max_iterations)
  /\ rn_state' = IF rn_state.reasoning_summary = ""
                 THEN [rn_state EXCEPT !.reasoning_summary = "max_iterations"]
                 ELSE rn_state
  /\ rn_pc' = "final"
  /\ UNCHANGED <<rn_max_iterations, rn_session, rn_iteration, rn_final_response,
                 rn_yielded,
                 plVars, tlVars, cmVars, fpVars, rdVars, rmVars, rkVars, tcVars>>

\* After the loop: the artifact is loaded (its failure is swallowed) and the
\* output is yielded.
YieldOutput ==
  /\ rn_pc = "final"
  /\ rn_yielded' = Append(rn_yielded, NavigatorOutput(rn_state))
  /\ rn_pc' = "done"
  /\ UNCHANGED <<rn_max_iterations, rn_session, rn_state, rn_iteration,
                 rn_final_response,
                 plVars, tlVars, cmVars, fpVars, rdVars, rmVars, rkVars, tcVars>>

InitAutonomous ==
  InitRunner /\ IdleManifest /\ IdleFlightPlan /\ IdleRender /\ IdleRepoMap
    /\ IdleRank /\ IdleTreeCache /\ IdleBudget /\ IdleTools

NextRunner == StartRun \/ AgentIteration \/ MaxIterationsReached \/ YieldOutput

SpecRunner == InitAutonomous /\ [][NextRunner]_vars

(***************************************************************************)
(* C26: the autonomous loop yields its progress and ends with one output.  *)
(***************************************************************************)

\* The items yielded so far are the progress of the iterations 1, 2, ... in
\* order, at most max_iterations of them, each but the last one an iteration
\* that neither completed the exploration nor exceeded the budget.
ProgressInOrder(n) ==
  /\ n = rn_iteration
  /\ n <= rn_max_iterations
  /\ \A i \in 1..n :
       /\ rn_yielded[i].kind = "NavigatorProgress"
       /\ rn_yielded[i].step = i
       /\ i < n => ~rn_yielded[i].complete /\ ~rn_yielded[i].exceeded

\* The generator has ended by yielding one NavigatorOutput after the
\* progress items, and it stopped short of max_iterations only after an
\* iteration that completed the exploration or exceeded the budget.
EndedWithOutput ==
  /\ Len(rn_yielded) = rn_iteration + 1
  /\ ProgressInOrder(rn_iteration)
  /\ rn_yielded[Len(rn_yielded)].kind = "NavigatorOutput"
  /\ rn_iteration < rn_max_iterations =>
       rn_yielded[rn_iteration].complete \/ rn_yielded[rn_iteration].exceeded
  /\ (rn_iteration > 0 /\ (rn_yielded[rn_iteration].complete
                             \/ rn_yielded[rn_iteration].exceeded)) =>
       rn_state.exploration_complete

\* C26, for run_autonomous on an existing session whose agent runs end: at
\* most max_iterations iterations are made, the loop stops after the first
\* iteration that completes the exploration or answers BUDGET_EXCEEDED, one
\* NavigatorProgress is yielded per iteration with step 1, 2, ..., and the
\* generator always ends by yielding exactly one NavigatorOutput, last: it
\* never ends by raising.
C26_ProgressThenOneOutput ==
  /\ rn_pc # "raised"
  /\ rn_pc \in {"loop", "final"} => /\ Len(rn_yielded) = rn_iteration
                                    /\ ProgressInOrder(rn_iteration)
  /\ rn_pc = "done" => EndedWithOutput

\* What the generator does: the same, unless the state an agent run left in
\* the session no longer validates; then it raises without an output.
C26_OutputUnlessStateInvalid ==
  /\ rn_pc = "raised" => /\ ~model_validate_ok(rn_session)
                         /\ \A i \in 1..Len(rn_yielded) :
                              rn_yielded[i].kind = "NavigatorProgress"
  /\ rn_pc \in {"loop", "final"} => /\ Len(rn_yielded) = rn_iteration
                                    /\ ProgressInOrder(rn_iteration)
  /\ rn_pc = "done" => EndedWithOutput

-----------------------------------------------------------------------------
(***************************************************************************)
(* The tools of the navigator (repo_map/navigator/tools.py).  A tool call  *)
(* reads the navigator state from the session, works on its own copy and   *)
(* writes the whole copy back; update_flight_plan is suspended twice on    *)
(* the way, while the command line runs and while the artifact is saved.   *)
(***************************************************************************)

\* The tool invocations the model runs.
MaxToolCalls == 3

\* The invocations that can be under way: the slots of the event loop.
ToolCalls == {1, 2}

DEFAULT_FLIGHT_PLAN_BUDGET == 20000

MIN_LEVEL == 0

MAX_LEVEL == 4

\* A rule of an update, as the dictionary the agent sends.
Rule(pattern, level) == [pattern |-> pattern, level |-> level]

\* The updates the agent sends: nothing, rules for known and new patterns,
\* the same pattern twice, a level out of range, a rule without a pattern,
\* and a budget.
NoUpdates ==
  [has_verbosity |-> FALSE, verbosity |-> <<>>, has_budget |-> FALSE, budget |-> 0]

VerbosityUpdate(rules) == [NoUpdates EXCEPT !.has_verbosity = TRUE, !.verbosity = rules]

BudgetUpdate(budget) == [NoUpdates EXCEPT !.has_budget = TRUE, !.budget = budget]

TlUpdates ==
  {NoUpdates,
   VerbosityUpdate(<<Rule("src/**", 2), Rule("tests/**", 1)>>),
   VerbosityUpdate(<<Rule("src/**", 4)>>),
   VerbosityUpdate(<<Rule("docs/**", 0)>>),
   VerbosityUpdate(<<Rule("docs/**", 1), Rule("src/**", 3), Rule("docs/**", 4)>>),
   VerbosityUpdate(<<Rule("src/**", 7)>>),
   VerbosityUpdate(<<Rule("", 2)>>),
   BudgetUpdate(5000),
   BudgetUpdate(0)}

\* The reasoning and the summary the agent sends.
TlReasonings == {"", "because"}

\* What subprocess.run does: it returns with a return code and, on success,
\* a map whose header names a number of tokens, or it raises.
TlCliResults ==
  {[kind |-> "returned", returncode |-> 0, total_tokens |-> t] : t \in {1000, 30000}}
  \cup {[kind |-> "returned", returncode |-> 1, total_tokens |-> 0],
        [kind |-> "TimeoutExpired", returncode |-> 0, total_tokens |-> 0],
        [kind |-> "FileNotFoundError", returncode |-> 0, total_tokens |-> 0]}

\* pattern_map[rule["pattern"]] = rule on a dictionary kept in insertion
\* order: the value of a known key is replaced where the key stands, a new
\* key goes to the end.
DictPut(pattern_map, rule) ==
  IF \E i \in 1..Len(pattern_map) : pattern_map[i].pattern = rule.pattern
  THEN [i \in 1..Len(pattern_map) |->
          IF pattern_map[i].pattern = rule.pattern THEN rule ELSE pattern_map[i]]
  ELSE Append(pattern_map, rule)

RECURSIVE DictPutAll(_, _)
DictPutAll(pattern_map, rules) ==
  IF rules = <<>> THEN pattern_map
  ELSE DictPutAll(DictPut(pattern_map, Head(rules)), Tail(rules))

\* FlightPlan.model_validate: budget > 0, every rule with a pattern of at
\* least one character and a level in 0..4.
FlightPlan_model_validate_ok(plan) ==
  /\ plan.budget > 0
  /\ \A i \in 1..Len(plan.verbosity) :
       /\ plan.verbosity[i].pattern # ""
       /\ plan.verbosity[i].level \in MIN_LEVEL..MAX_LEVEL

\* A variant that replaces the rule list by the rules of the update.
merge_flight_plan_updates_Replacing(current, updates) ==
  LET merged == [budget |-> IF updates.has_budget THEN updates.budget
                            ELSE current.budget,
                 verbosity |-> IF updates.has_verbosity THEN updates.verbosity
                               ELSE current.verbosity]
  IN [ok |-> FlightPlan_model_validate_ok(merged), plan |-> merged]

\* _merge_flight_plan_updates(current, updates): the merged plan, or the
\* failure of its validation.
merge_flight_plan_updates(current, updates) ==
  LET merged ==
        [budget |-> IF updates.has_budget THEN updates.budget ELSE current.budget,
         verbosity |->
           IF updates.has_verbosity
           THEN DictPutAll(DictPutAll(<<>>, current.verbosity), updates.verbosity)
           ELSE current.verbosity]
  IN [ok |-> FlightPlan_model_validate_ok(merged), plan |-> merged]

\* A variant that numbers every entry 1.
next_step_One(decision_log) == 1

\* step=len(state.decision_log) + 1
next_step(decision_log) == Len(decision_log) + 1

\* A variant that takes a non-zero return code for success.
cli_failed_ExceptionsOnly(result) == result.kind # "returned"

\* The command line failed: it raised TimeoutExpired or FileNotFoundError,
\* or it returned a non-zero code.
cli_failed(result) == result.kind # "returned" \/ result.returncode # 0

\* get_navigator_state(tool_context) raises ValueError: the state is missing
\* or it does not validate.
get_navigator_state_raises(session_state) ==
  \/ session_state = NoState
  \/ session_state.map_metadata.budget_utilization > MAX_BUDGET_UTILIZATION

\* The navigator state initialize_session stores.
TlInitialState(execution_mode) ==
  [execution_mode |-> execution_mode,
   flight_plan |-> [budget |-> DEFAULT_FLIGHT_PLAN_BUDGET, verbosity |-> <<>>],
   decision_log |-> <<>>,
   map_metadata |-> [total_tokens |-> 0, budget_utilization |-> 0],
   interactive_pause |-> FALSE,
   exploration_complete |-> FALSE,
   reasoning_summary |-> ""]

NoArtifact == <<>>

IdleFrame ==
  [pc |-> "idle", n |-> 0, op |-> "", reasoning |-> "", updates |-> NoUpdates,
   state |-> NoState, entry |-> <<>>, updated_plan |-> <<>>,
   cli |-> <<>>, result |-> ""]

\* The invocations suspended at an await.
InFlight == {c \in ToolCalls : tl_calls[c].pc \in {"cli", "save"}}

\* The slot a new invocation takes: the first one that is not in use.
FreeSlot ==
  IF InFlight = ToolCalls THEN 0
  ELSE CHOOSE c \in ToolCalls \ InFlight :
         \A d \in ToolCalls \ InFlight : c <= d

InitTools ==
  /\ tl_session \in {NoState} \cup
                    {TlInitialState(m) : m \in {"autonomous", "interactive"}}
  /\ tl_artifact = NoArtifact
  /\ tl_calls = [c \in ToolCalls |-> IdleFrame]
  /\ tl_started = 0

\* update_flight_plan(reasoning, updates, tool_context) up to its first
\* await: the state is read and the updates are merged; the call returns an
\* error or hands the command line to a thread.
BeginUpdate(c) ==
  /\ c = FreeSlot
  /\ Cardinality(InFlight) < tl_overlap
  /\ tl_started < MaxToolCalls
  /\ tl_started' = tl_started + 1
  /\ \E reasoning \in TlReasonings, updates \in TlUpdates :
     LET frame == [IdleFrame EXCEPT !.n = tl_started + 1,
                                    !.op = "update_flight_plan",
                                    !.reasoning = reasoning,
                                    !.updates = updates,
                                    !.entry = <<tl_session, tl_artifact>>]
     IN IF get_navigator_state_raises(tl_session)
        THEN tl_calls' = [tl_calls EXCEPT ![c] =
               [frame EXCEPT !.pc = "returned", !.result = "error: state"]]
        ELSE \E m \in {merge_flight_plan_updates(tl_session.flight_plan, updates)} :
             IF ~m.ok
             THEN tl_calls' = [tl_calls EXCEPT ![c] =
                    [frame EXCEPT !.pc = "returned", !.state = tl_session,
                                  !.result = "error: updates"]]
             ELSE tl_calls' = [tl_calls EXCEPT ![c] =
                    [frame EXCEPT !.pc = "cli", !.state = tl_session,
                                  !.updated_plan = m.plan]]
  /\ UNCHANGED <<tl_session, tl_artifact, tl_overlap,
                 plVars, rnVars, cmVars, fpVars, rdVars, rmVars, rkVars, tcVars>>

\* The thread of the command line ends: the call returns an error, or goes
\* on to save the map as the artifact and is suspended there.
CliReturns(c) ==
  /\ tl_calls[c].pc = "cli"
  /\ \E result \in TlCliResults :
       IF cli_failed(result)
       THEN tl_calls' = [tl_calls EXCEPT ![c].pc = "returned", ![c].cli = result,
                                         ![c].result = "error: cli"]
       ELSE tl_calls' = [tl_calls EXCEPT ![c].pc = "save", ![c].cli = result]
  /\ UNCHANGED <<tl_session, tl_artifact, tl_overlap, tl_started,
                 plVars, rnVars, cmVars, fpVars, rdVars, rmVars, rkVars, tcVars>>

\* The state update_flight_plan writes back: its copy with the decision
\* logged, the merged plan, the metadata of the map and the pause flag.
updated_state(state, updated_plan, map_output, reasoning, n) ==
  [state EXCEPT
     !.decision_log = Append(@, [step |-> next_step(state.decision_log),
                                 action |-> "update_flight_plan", call |-> n]),
     !.flight_plan = updated_plan,
     !.map_metadata = [total_tokens |-> map_output.total_tokens,
                       budget_utilization |->
                         (map_output.total_tokens * 100) \div updated_plan.budget],
     !.interactive_pause = (state.execution_mode = "interactive" \/ @)]

\* update_flight_plan from save_artifact to its end: the artifact is stored,
\* the decision is logged (DecisionLogEntry refuses an empty reasoning) and
\* the state is written back.
SaveAndPersist(c) ==
  /\ tl_calls[c].pc = "save"
  /\ tl_artifact' = [map_output |-> tl_calls[c].cli, call |-> tl_calls[c].n]
  /\ IF tl_calls[c].reasoning = ""
     THEN /\ tl_calls' = [tl_calls EXCEPT ![c].pc = "raised",
                                          ![c].result = "ValidationError"]
          /\ UNCHANGED tl_session
     ELSE /\ tl_session' = updated_state(tl_calls[c].state, tl_calls[c].updated_plan,
                                         tl_calls[c].cli, tl_calls[c].reasoning,
                                         tl_calls[c].n)
          /\ tl_calls' = [tl_calls EXCEPT ![c].pc = "returned",
                                          ![c].result = "success"]
  /\ UNCHANGED <<tl_overlap, tl_started,
                 plVars, rnVars, cmVars, fpVars, rdVars, rmVars, rkVars, tcVars>>

\* The state finalize_context writes back.
finalized_state(state, summary, n) ==
  [state EXCEPT
     !.decision_log = Append(@, [step |-> next_step(state.decision_log),
                                 action |-> "finalize_context", call |-> n]),
     !.exploration_complete = TRUE,
     !.reasoning_summary = summary]

\* finalize_context(summary, tool_context): it has no await and runs in one
\* piece.
FinalizeContext(c) ==
  /\ c = FreeSlot
  /\ Cardinality(InFlight) < tl_overlap
  /\ tl_started < MaxToolCalls
  /\ tl_started' = tl_started + 1
  /\ \E summary \in TlReasonings :
     LET frame == [IdleFrame EXCEPT !.n = tl_started + 1,
                                    !.op = "finalize_context",
                                    !.reasoning = summary,
                                    !.entry = <<tl_session, tl_artifact>>]
     IN IF get_navigator_state_raises(tl_session)
        THEN /\ tl_calls' = [tl_calls EXCEPT ![c] =
                  [frame EXCEPT !.pc = "returned", !.result = "error: state"]]
             /\ UNCHANGED tl_session
        ELSE IF summary = ""
        THEN /\ tl_calls' = [tl_calls EXCEPT ![c] =
                  [frame EXCEPT !.pc = "raised", !.state = tl_session,
                                !.result = "ValidationError"]]
             /\ UNCHANGED tl_session
        ELSE /\ tl_session' = finalized_state(tl_session, summary, tl_started + 1)
             /\ tl_calls' = [tl_calls EXCEPT ![c] =
                  [frame EXCEPT !.pc = "returned", !.state = tl_session,
                                !.result = "complete"]]
  /\ UNCHANGED <<tl_artifact, tl_overlap,
                 plVars, rnVars, cmVars, fpVars, rdVars, rmVars, rkVars, tcVars>>

NextTools ==
  \E c \in ToolCalls :
    BeginUpdate(c) \/ CliReturns(c) \/ SaveAndPersist(c) \/ FinalizeContext(c)

\* The tool calls of an agent that calls one tool at a time.
InitSequentialTools ==
  InitTools /\ tl_overlap = 1 /\ IdleManifest /\ IdleFlightPlan /\ IdleRender
    /\ IdleRepoMap /\ IdleRank /\ IdleTreeCache /\ IdleBudget /\ IdleRunner

SpecTools == InitSequentialTools /\ [][NextTools]_vars

\* The tool calls of an agent whose response holds two function calls, which
\* the event loop runs side by side.
InitOverlappingTools ==
  InitTools /\ tl_overlap = 2 /\ IdleManifest /\ IdleFlightPlan /\ IdleRender
    /\ IdleRepoMap /\ IdleRank /\ IdleTreeCache /\ IdleBudget /\ IdleRunner

SpecOverlappingTools == InitOverlappingTools /\ [][NextTools]_vars

(***************************************************************************)
(* C27: the decision log is numbered 1, 2, ... and only grows.             *)
(***************************************************************************)

\* The decision log the session holds.
PersistedLog(session_state) ==
  IF session_state = NoState THEN <<>> ELSE session_state.decision_log

\* The invocation in slot c ends in this step.
Finishes(c) ==
  /\ tl_calls'[c] # tl_calls[c]
  /\ tl_calls'[c].pc \in {"returned", "raised"}

\* The invocation in slot c ends in this step with a success.
Succeeds(c) == Finishes(c) /\ tl_calls'[c].result \in {"success", "complete"}

LogGrowsByOne ==
  LET log == PersistedLog(tl_session)
      after == PersistedLog(tl_session')
  IN /\ \A i \in 1..Len(after) : after[i].step = i
     /\ IF \E c \in ToolCalls : Succeeds(c)
        THEN /\ Len(after) = Len(log) + 1
             /\ SubSeq(after, 1, Len(log)) = log
             /\ after[Len(after)].step = Len(log) + 1
        ELSE after = log

\* C27, for update_flight_plan and finalize_context called one after the
\* other from an empty decision log: the i-th entry of the log has step i;
\* a call that succeeds appends exactly one entry, numbered one more than
\* the entries before it, a call that fails appends nothing, and no entry
\* is changed or removed.
C27_DecisionLogNumbered == [][LogGrowsByOne]_vars

\* Two calls were logged, an update and then the finalization, and a third
\* call failed on its updates.
C27_Witness ==
  /\ tl_overlap = 1
  /\ tl_session # NoState
  /\ Len(tl_session.decision_log) = 2
  /\ tl_session.decision_log[1].action = "update_flight_plan"
  /\ tl_session.decision_log[2].action = "finalize_context"
  /\ tl_session.decision_log[2].step = 2
  /\ tl_calls[1].result = "error: updates"

(***************************************************************************)
(* C28: a failing update_flight_plan leaves the persisted state alone.     *)
(***************************************************************************)

\* The invocation of the frame meets one of the failures: the state is
\* missing or unreadable, the updates do not make a valid plan, or the
\* command line exits with a non-zero code, times out or is not found.
MeetsFailure(frame) ==
  /\ frame.op = "update_flight_plan"
  /\ \/ get_navigator_state_raises(frame.entry[1])
     \/ LET plan == frame.entry[1].flight_plan
            budget == IF frame.updates.has_budget THEN frame.updates.budget
                      ELSE plan.budget
        IN \/ budget <= 0
           \/ /\ frame.updates.has_verbosity
              /\ \E i \in 1..Len(frame.updates.verbosity) :
                   \/ frame.updates.verbosity[i].pattern = ""
                   \/ frame.updates.verbosity[i].level \notin 0..4
     \/ /\ frame.cli # <<>>
        /\ \/ frame.cli.kind \in {"TimeoutExpired", "FileNotFoundError"}
           \/ frame.cli.returncode # 0

FailureLeavesStateAlone ==
  \A c \in ToolCalls :
    (Finishes(c) /\ MeetsFailure(tl_calls'[c])) =>
      /\ tl_calls'[c].pc = "returned"
      /\ tl_calls'[c].result \in {"error: state", "error: updates", "error: cli"}
      /\ tl_session' = tl_calls'[c].entry[1]
      /\ tl_artifact' = tl_calls'[c].entry[2]

\* C28, for update_flight_plan: when the call fails because the state is
\* missing, the updates are invalid or the command line exits non-zero,
\* times out or is not found, it returns status 'error' and the persisted
\* navigator state (flight plan, decision log, map metadata,
\* interactive_pause) and the stored artifact are what they were when the
\* call began.
C28_FailureLeavesStateUnchanged == [][FailureLeavesStateAlone]_vars

\* After a logged update, with its artifact, a second update failed on the
\* return code of the command line.
C28_Witness ==
  /\ tl_overlap = 1
  /\ tl_calls[1].op = "update_flight_plan"
  /\ tl_calls[1].result = "error: cli"
  /\ tl_calls[1].cli.returncode = 1
  /\ tl_session # NoState
  /\ Len(tl_session.decision_log) = 1
  /\ tl_session.flight_plan.verbosity # <<>>
  /\ tl_session.interactive_pause
  /\ tl_artifact # NoArtifact

(***************************************************************************)
(* C29: overlapping tool calls.                                            *)
(***************************************************************************)

\* The patterns an update names.
Mentioned(updates) ==
  IF updates.has_verbosity
  THEN {updates.verbosity[i].pattern : i \in 1..Len(updates.verbosity)}
  ELSE {}

\* What the session held before a call wrote its state is still there
\* after: the entries of the decision log, with distinct steps, the
\* exploration_complete flag, the budget and the rules the call itself did
\* not set.
NothingOverwritten ==
  \A c \in ToolCalls :
    (Succeeds(c) /\ tl_session # NoState) =>
      LET log == tl_session.decision_log
          after == tl_session'.decision_log
          rules == tl_session.flight_plan.verbosity
          kept == tl_session'.flight_plan.verbosity
      IN /\ \A i \in 1..Len(log) : \E j \in 1..Len(after) : after[j] = log[i]
         /\ \A i, j \in 1..Len(after) : i # j => after[i].step # after[j].step
         /\ tl_session.exploration_complete => tl_session'.exploration_complete
         /\ tl_calls'[c].updates.has_budget
              \/ tl_session'.flight_plan.budget = tl_session.flight_plan.budget
         /\ \A i \in 1..Len(rules) :
              rules[i].pattern \in Mentioned(tl_calls'[c].updates)
                \/ \E j \in 1..Len(kept) : kept[j] = rules[i]

\* C29, for a second update_flight_plan or finalize_context that runs while
\* a first update_flight_plan is suspended at the command line or at the
\* artifact: once both have written the state, both entries are in the
\* decision log with distinct steps, and neither the flight-plan change nor
\* the exploration_complete flag of the other call is overwritten.
C29_OverlappingCallsKeepBoth == [][NothingOverwritten]_vars

(***************************************************************************)
(* C30: the rules of an update are merged into the plan.                   *)
(***************************************************************************)

Patterns(rules) == {rules[i].pattern : i \in 1..Len(rules)}

\* The last rule of the list with the pattern.
LastRuleFor(rules, pattern) ==
  rules[CHOOSE i \in 1..Len(rules) :
          /\ rules[i].pattern = pattern
          /\ \A j \in 1..Len(rules) : rules[j].pattern = pattern => j <= i]

\* Where the pattern is first named in the list.
FirstMention(rules, pattern) ==
  CHOOSE i \in 1..Len(rules) :
    /\ rules[i].pattern = pattern
    /\ \A j \in 1..Len(rules) : rules[j].pattern = pattern => i <= j

\* merged is current with the rules of the update merged in.
MergedAsClaimed(current, update, merged) ==
  /\ Len(merged) = Len(current) + Cardinality(Patterns(update) \ Patterns(current))
  /\ \A i \in 1..Len(current) :
       /\ merged[i].pattern = current[i].pattern
       /\ merged[i] = IF current[i].pattern \in Patterns(update)
                      THEN LastRuleFor(update, current[i].pattern)
                      ELSE current[i]
  /\ \A i \in (Len(current) + 1)..Len(merged) :
       /\ merged[i].pattern \in Patterns(update) \ Patterns(current)
       /\ merged[i] = LastRuleFor(update, merged[i].pattern)
       /\ \A j \in (Len(current) + 1)..Len(merged) :
            i < j => FirstMention(update, merged[i].pattern)
                       < FirstMention(update, merged[j].pattern)
  /\ \A i, j \in 1..Len(merged) : i # j => merged[i].pattern # merged[j].pattern

\* The invocations of update_flight_plan whose merge made a valid plan.
MergedFrames ==
  {c \in ToolCalls : /\ tl_calls[c].op = "update_flight_plan"
                     /\ tl_calls[c].updated_plan # <<>>}

\* C30, for _merge_flight_plan_updates as update_flight_plan calls it: the
\* rules of the update are merged into the list, not put in its place. A
\* rule of the update whose pattern is in the plan stands where the rule of
\* the plan stood, a rule with a new pattern stands after all rules of the
\* plan, the rules the update does not name keep their level and order, and
\* no pattern occurs twice in the merged plan; of two rules of the update
\* with one pattern the later one is the rule of that pattern.
C30_VerbosityRulesMerged ==
  \A c \in MergedFrames :
    LET current == tl_calls[c].state.flight_plan.verbosity
        updates == tl_calls[c].updates
        merged == tl_calls[c].updated_plan.verbosity
    IN IF updates.has_verbosity
       THEN MergedAsClaimed(current, updates.verbosity, merged)
       ELSE merged = current

\* An update that names docs/** twice and src/** once was merged into the
\* plan of src/** and tests/**.
C30_Witness ==
  /\ tl_overlap = 1
  /\ tl_calls[1].op = "update_flight_plan"
  /\ tl_calls[1].state # NoState
  /\ tl_calls[1].state.flight_plan.verbosity
       = <<Rule("src/**", 2), Rule("tests/**", 1)>>
  /\ tl_calls[1].updates.verbosity
       = <<Rule("docs/**", 1), Rule("src/**", 3), Rule("docs/**", 4)>>
  /\ tl_calls[1].updated_plan # <<>>
  /\ tl_calls[1].updated_plan.verbosity
       = <<Rule("src/**", 3), Rule("tests/**", 1), Rule("docs/**", 4)>>

=============================================================================
